---- MODULE Spec2Model ----
(***************************************************************************)
(* A model of the archer tracing backend: the storage engine (write        *)
(* transaction, read queries), the tag filter of list_spans and the        *)
(* /api/traces handler of the query API.                                   *)
(***************************************************************************)
EXTENDS Integers, Sequences, FiniteSets, TLC

VARIABLES
    db,          \* the committed content of the database file
    tx,          \* the working copy of the open write transaction
    lock,        \* holder of the writer connection's mutex, 0 when free
    pc,          \* position of every save_spans call
    spans,       \* the batch every save_spans call was given
    trace_info,  \* the TraceInfo map every save_spans call computed
    last_batch,  \* the batch of the most recent committed transaction
    resp,        \* the result of the most recent read query or HTTP request
    client,      \* the Quiver client: its actor, channels, send tasks and clock
    listener,    \* the Quiver listener: its tasks and the shutdown signal
    layer        \* the tracing layer: the spans that are open and those emitted

vars == <<db, tx, lock, pc, spans, trace_info, last_batch, resp,
          client, listener, layer>>

(***************************************************************************)
(* Bounds of the model.                                                    *)
(***************************************************************************)
MaxCalls == 2
MaxBatchLen == 2
MaxTime == 3
MaxLimit == 2

Callers == 1..MaxCalls
Times == 1..MaxTime

(***************************************************************************)
(* Helpers on sequences and sets.                                          *)
(***************************************************************************)
Range(s) == {s[i] : i \in DOMAIN s}

SeqsUpTo(S, n) == UNION {[1..k -> S] : k \in 1..n}

Min(S) == CHOOSE x \in S : \A y \in S : x <= y

Max(S) == CHOOSE x \in S : \A y \in S : x >= y

(***************************************************************************)
(* Canonical model: spans, tags, processes.                                *)
(***************************************************************************)
NanosPerMicro == 1000

\* Duration::whole_microseconds of a non-negative duration held in nanoseconds
WholeMicroseconds(d) == d \div NanosPerMicro

Tag(k, ty, v) == [key |-> k, value |-> [ty |-> ty, v |-> v]]

\* a canonical span: identifiers, name, flags, references, start, duration,
\* tags, logs and the process it comes from
MkFullSpan(t, s, op, fl, refs, st, du, tg, lg, proc) ==
    [trace_id |-> t, span_id |-> s, operation_name |-> op, flags |-> fl,
     references |-> refs, start |-> st, duration |-> du, tags |-> tg,
     logs |-> lg, process |-> proc]

\* a span that is sampled and has no references and no logs
MkSpan(t, s, svc, op, st, du, tg, ptg) ==
    MkFullSpan(t, s, op, 1, << >>, st, du, tg, << >>,
               [service |-> svc, tags |-> ptg])

\* TraceId::to_bytes: the big-endian bytes of the id, kept as the pair
\* (bytes above the lowest, lowest byte)
ByteRadix == 256

to_bytes(id) == <<id \div ByteRadix, id % ByteRadix>>

\* TraceId::try_from of a stored key
from_bytes(b) == b[1] * ByteRadix + b[2]

\* encode_span: the span serialised as the array of its fields, compressed
encode_span(span) ==
    [snap |-> <<span.trace_id, span.span_id, span.operation_name, span.flags,
                span.references, span.start, span.duration, span.tags,
                span.logs, <<span.process.service, span.process.tags>> >>]

\* decode_span: decompress, then rebuild the span from the array
decode_span(payload) ==
    LET a == payload.snap
    IN  MkFullSpan(a[1], a[2], a[3], a[4], a[5], a[6], a[7], a[8], a[9],
                   [service |-> a[10][1], tags |-> a[10][2]])

(***************************************************************************)
(* TraceInfo::from_spans: per trace id of the batch, the service of the    *)
(* first span seen, the minimum start and the minimum/maximum duration.    *)
(***************************************************************************)
\* from_spans with the start of the last span seen instead of the minimum
RECURSIVE from_spans_last_start(_, _, _)
from_spans_last_start(batch, i, map) ==
    IF i > Len(batch) THEN map
    ELSE
        LET span == batch[i]
            old == IF span.trace_id \in DOMAIN map
                   THEN map[span.trace_id]
                   ELSE [service |-> span.process.service,
                         timestamp |-> span.start,
                         min_duration |-> span.duration,
                         max_duration |-> span.duration]
            info == [service |-> old.service,
                     timestamp |-> span.start,
                     min_duration |-> Min({old.min_duration, span.duration}),
                     max_duration |-> Max({old.max_duration, span.duration})]
        IN  from_spans_last_start(batch, i + 1,
                [t \in DOMAIN map \cup {span.trace_id} |->
                    IF t = span.trace_id THEN info ELSE map[t]])

RECURSIVE from_spans_loop(_, _, _)
from_spans_loop(batch, i, map) ==
    IF i > Len(batch) THEN map
    ELSE
        LET span == batch[i]
            old == IF span.trace_id \in DOMAIN map
                   THEN map[span.trace_id]
                   ELSE [service |-> span.process.service,
                         timestamp |-> span.start,
                         min_duration |-> span.duration,
                         max_duration |-> span.duration]
            info == [service |-> old.service,
                     timestamp |-> Min({old.timestamp, span.start}),
                     min_duration |-> Min({old.min_duration, span.duration}),
                     max_duration |-> Max({old.max_duration, span.duration})]
        IN  from_spans_loop(batch, i + 1,
                [t \in DOMAIN map \cup {span.trace_id} |->
                    IF t = span.trace_id THEN info ELSE map[t]])

from_spans(batch) == from_spans_loop(batch, 1, << >>)

(***************************************************************************)
(* The SQL statements of the storage engine (queries/*.sql). A table is    *)
(* the set of its rows.                                                    *)
(***************************************************************************)
EmptyDb == [service |-> {}, operation |-> {}, trace |-> {}, span |-> {}]

\* save_service.sql: upsert by name
SaveServiceSql(t, name) == t \cup {name}

\* save_operation.sql: upsert by (service, name)
SaveOperationSql(t, service, name) == t \cup {<<service, name>>}

\* save_trace.sql: upsert by trace_id; on conflict the stored row keeps its
\* service and takes the minimum timestamp, the minimum min_duration and the
\* maximum max_duration
SaveTraceSql(t, id, service, timestamp, min_us, max_us) ==
    LET hit == {r \in t : r.trace_id = id}
    IN  IF hit = {}
        THEN t \cup {[trace_id |-> id, service |-> service,
                      timestamp |-> timestamp,
                      min_duration |-> min_us, max_duration |-> max_us]}
        ELSE (t \ hit) \cup
             {[trace_id |-> id, service |-> r.service,
               timestamp |-> Min({r.timestamp, timestamp}),
               min_duration |-> Min({r.min_duration, min_us}),
               max_duration |-> Max({r.max_duration, max_us})] : r \in hit}

\* save_span.sql as a plain INSERT: a second row of the same key is a
\* constraint failure
SaveSpanSqlPlainInsert(t, trace_id, span_id, operation_name, payload) ==
    IF \E r \in t : r.trace_id = trace_id /\ r.span_id = span_id
    THEN [ok |-> FALSE, t |-> t]
    ELSE [ok |-> TRUE,
          t |-> t \cup {[trace_id |-> trace_id, span_id |-> span_id,
                         operation_name |-> operation_name,
                         payload |-> payload]}]

\* save_span.sql: upsert by (trace_id, span_id). ok is FALSE when the
\* statement fails.
SaveSpanSql(t, trace_id, span_id, operation_name, payload) ==
    [ok |-> TRUE,
     t |-> {r \in t : ~(r.trace_id = trace_id /\ r.span_id = span_id)}
           \cup {[trace_id |-> trace_id, span_id |-> span_id,
                  operation_name |-> operation_name, payload |-> payload]}]

(***************************************************************************)
(* Database::save_spans: the four loops of the transaction, each over the  *)
(* working copy conn of the transaction.                                   *)
(***************************************************************************)
RECURSIVE save_service_loop(_, _, _)
save_service_loop(conn, batch, i) ==
    IF i > Len(batch) THEN conn
    ELSE save_service_loop(
            [conn EXCEPT !.service = SaveServiceSql(@, batch[i].process.service)],
            batch, i + 1)

RECURSIVE save_operation_loop(_, _, _)
save_operation_loop(conn, batch, i) ==
    IF i > Len(batch) THEN conn
    ELSE save_operation_loop(
            [conn EXCEPT !.operation =
                SaveOperationSql(@, batch[i].process.service,
                                 batch[i].operation_name)],
            batch, i + 1)

RECURSIVE save_trace_loop(_, _, _)
save_trace_loop(conn, info, todo) ==
    IF todo = {} THEN conn
    ELSE
        LET id == CHOOSE t \in todo : TRUE
        IN  save_trace_loop(
                [conn EXCEPT !.trace =
                    SaveTraceSql(@, to_bytes(id), info[id].service,
                                 info[id].timestamp,
                                 WholeMicroseconds(info[id].min_duration),
                                 WholeMicroseconds(info[id].max_duration))],
                info, todo \ {id})

\* the span loop leaving out the first span of the batch
save_span_loop_skip_first(conn, batch, i) ==
    [ok |-> TRUE,
     conn |-> [conn EXCEPT !.span = @ \cup
        {[trace_id |-> to_bytes(batch[j].trace_id), span_id |-> batch[j].span_id,
          operation_name |-> batch[j].operation_name,
          payload |-> encode_span(batch[j])] : j \in DOMAIN batch \ {1}}]]

\* the loop stops at the first statement that fails
RECURSIVE save_span_loop(_, _, _)
save_span_loop(conn, batch, i) ==
    IF i > Len(batch) THEN [ok |-> TRUE, conn |-> conn]
    ELSE
        LET span == batch[i]
            r == SaveSpanSql(conn.span, to_bytes(span.trace_id), span.span_id,
                             span.operation_name, encode_span(span))
        IN  IF r.ok
            THEN save_span_loop([conn EXCEPT !.span = r.t], batch, i + 1)
            ELSE [ok |-> FALSE, conn |-> conn]

\* the span rows a successful save_spans(batch) leaves in the span table
StoredSpans(batch) == {batch[i] : i \in {j \in DOMAIN batch :
    \A k \in DOMAIN batch :
        (k > j) => ~(batch[k].trace_id = batch[j].trace_id
                     /\ batch[k].span_id = batch[j].span_id)}}

(***************************************************************************)
(* Inputs of the write path.                                               *)
(***************************************************************************)
SpanA1 == MkSpan(5, 1, "a", "x", 2, 1500, << >>, << >>)

SpanA2 == MkSpan(5, 2, "a", "y", 1, 500, << >>, << >>)

\* the key of SpanA1 with another payload
SpanB1 == MkSpan(5, 1, "b", "x", 3, 2500, << >>, << >>)

SpanB6 == MkSpan(6, 1, "b", "x", 2, 1000, << >>, << >>)

\* the batches the concurrent callers choose from
StoreBatches ==
    { <<SpanA1>>, <<SpanA2>>, <<SpanB1>>, <<SpanB6>>,
      <<SpanA2, SpanA1>>, <<SpanA1, SpanA2>>, <<SpanA1, SpanB1>>,
      <<SpanB6, SpanA2, SpanB1>> }

TraceIds == {5, 6, 7}

NoResp == [op |-> "none"]

InTx == {"service", "operation", "trace", "span", "commit"}

(***************************************************************************)
(* save_spans, step by step. The closure runs on the blocking pool while   *)
(* the caller holds the connection's mutex.                                *)
(***************************************************************************)
\* save_spans is called: TraceInfo::from_spans runs before the lock is taken
Call(c, batches) ==
    /\ pc[c] = "idle"
    /\ \E batch \in batches :
        /\ spans' = [spans EXCEPT ![c] = batch]
        /\ trace_info' = [trace_info EXCEPT ![c] = from_spans(batch)]
    /\ pc' = [pc EXCEPT ![c] = "wait"]
    /\ UNCHANGED <<db, tx, lock, last_batch, resp, client, listener, layer>>

\* interact: lock_owned().await, then conn.transaction()
Lock(c) ==
    /\ pc[c] = "wait"
    /\ lock = 0
    /\ lock' = c
    /\ tx' = db
    /\ pc' = [pc EXCEPT ![c] = "service"]
    /\ UNCHANGED <<db, spans, trace_info, last_batch, resp, client, listener, layer>>

SaveServices(c) ==
    /\ pc[c] = "service"
    /\ tx' = save_service_loop(tx, spans[c], 1)
    /\ pc' = [pc EXCEPT ![c] = "operation"]
    /\ UNCHANGED <<db, lock, spans, trace_info, last_batch, resp, client, listener, layer>>

SaveOperations(c) ==
    /\ pc[c] = "operation"
    /\ tx' = save_operation_loop(tx, spans[c], 1)
    /\ pc' = [pc EXCEPT ![c] = "trace"]
    /\ UNCHANGED <<db, lock, spans, trace_info, last_batch, resp, client, listener, layer>>

SaveTraces(c) ==
    /\ pc[c] = "trace"
    /\ tx' = save_trace_loop(tx, trace_info[c], DOMAIN trace_info[c])
    /\ pc' = [pc EXCEPT ![c] = "span"]
    /\ UNCHANGED <<db, lock, spans, trace_info, last_batch, resp, client, listener, layer>>

\* a failing statement returns through `?`: the transaction is dropped, which
\* rolls it back, and the mutex guard is released
SaveSpans(c) ==
    /\ pc[c] = "span"
    /\ LET r == save_span_loop(tx, spans[c], 1)
       IN  IF r.ok
           THEN /\ tx' = r.conn
                /\ pc' = [pc EXCEPT ![c] = "commit"]
                /\ lock' = lock
           ELSE /\ tx' = EmptyDb
                /\ pc' = [pc EXCEPT ![c] = "err"]
                /\ lock' = 0
    /\ UNCHANGED <<db, spans, trace_info, last_batch, resp, client, listener, layer>>

\* conn.commit() succeeds
Commit(c) ==
    /\ pc[c] = "commit"
    /\ db' = tx
    /\ tx' = EmptyDb
    /\ lock' = 0
    /\ last_batch' = spans[c]
    /\ pc' = [pc EXCEPT ![c] = "ok"]
    /\ UNCHANGED <<spans, trace_info, resp, client, listener, layer>>

\* a failing step without the rollback: what was written so far stays
FailKeepsWrites(c) ==
    /\ pc[c] \in InTx
    /\ db' = tx
    /\ tx' = EmptyDb
    /\ lock' = 0
    /\ pc' = [pc EXCEPT ![c] = "err"]
    /\ UNCHANGED <<spans, trace_info, last_batch, resp, client, listener, layer>>

\* any step of the closure fails (I/O error, encode_span error, failing
\* commit): the closure returns the error and the transaction is rolled back
Fail(c) ==
    /\ pc[c] \in InTx
    /\ tx' = EmptyDb
    /\ lock' = 0
    /\ pc' = [pc EXCEPT ![c] = "err"]
    /\ UNCHANGED <<db, spans, trace_info, last_batch, resp, client, listener, layer>>

(***************************************************************************)
(* Read queries. They run on the read-only connection and see the          *)
(* committed content only.                                                 *)
(***************************************************************************)
\* find_trace.sql: the payloads of the span rows of one trace
FindTraceSql(conn, key) == {r.payload : r \in {x \in conn.span : x.trace_id = key}}

\* find_traces.sql: the payloads of the span rows whose trace is in the list
FindTracesSql(conn, keys) == {r.payload : r \in {x \in conn.span : x.trace_id \in keys}}

\* ReadOnlyDatabase::find_trace: the decoded spans, in no particular order
find_trace(conn, trace_id) ==
    {decode_span(p) : p \in FindTraceSql(conn, to_bytes(trace_id))}

\* ReadOnlyDatabase::find_traces: the decoded spans grouped by their trace id
find_traces(conn, trace_ids) ==
    LET found == {decode_span(p) :
                    p \in FindTracesSql(conn, {to_bytes(t) : t \in trace_ids})}
    IN  [t \in {x.trace_id : x \in found} |-> {x \in found : x.trace_id = t}]

\* interact on the read-only connection: its mutex admits one query at a
\* time, and the guard is released when the result has been handed back
Return ==
    /\ resp # NoResp
    /\ resp' = NoResp
    /\ UNCHANGED <<db, tx, lock, pc, spans, trace_info, last_batch, client, listener, layer>>

FindTrace ==
    /\ resp = NoResp
    /\ \E id \in TraceIds :
        resp' = [op |-> "find_trace", id |-> id, result |-> find_trace(db, id)]
    /\ UNCHANGED <<db, tx, lock, pc, spans, trace_info, last_batch, client, listener, layer>>

(***************************************************************************)
(* The Quiver client (tracing_archer::connection): the actor that owns     *)
(* the connection, the send task it spawns for every span, the background  *)
(* task that joins the send tasks, and the callers of the handle.  Time is *)
(* a clock of ticks.                                                       *)
(***************************************************************************)
MaxSends == 2

MaxClock == 3

MaxWait == 2

SendIds == 1..MaxSends

\* no instant: the shutdown has not started or has not returned
NoTime == 0 - 1

\* the capacity of the channel of the handle
ChannelCapacity == 16

SendSpanMsg(k) == [kind |-> "SendSpan", id |-> k]

ShutdownMsg(max_wait) == [kind |-> "Shutdown", max_wait |-> max_wait]

\* the max_wait of shutdown_blocking: Duration::from_secs(1)
BlockingMaxWait == 1

\* the Shutdown message of shutdown_blocking, with the reply channel of the
\* dropping thread
BlockingShutdownMsg ==
    [kind |-> "Shutdown", max_wait |-> BlockingMaxWait, respond_to |-> "drop"]

\* Connection::new and Handle::new, after the first connection was made: the
\* flag starts false, the background task waits on the channel of the tasks
ClientFor(ids) ==
    [connected |-> FALSE,
     conn |-> 1,
     receiver |-> << >>,
     actor |-> "recv",
     msg |-> SendSpanMsg(0),
     tasks |-> << >>,
     sender_alive |-> TRUE,
     handle |-> [pc |-> "recv", join |-> 0],
     task |-> [k \in ids |-> "none"],
     task_conn |-> [k \in ids |-> 0],
     loaded |-> [k \in ids |-> FALSE],
     failure_seen |-> [k \in ids |-> FALSE],
     reconnected |-> [k \in ids |-> FALSE],
     result |-> [k \in ids |-> "none"],
     called |-> [k \in ids |-> FALSE],
     shutdown_called |-> FALSE,
     now |-> 0,
     start |-> NoTime,
     max_wait |-> 0,
     done_at |-> [k \in ids |-> NoTime],
     returned_at |-> NoTime,
     failed_since_connect |-> FALSE,
     drop |-> "none"]

ClientInit == ClientFor(SendIds)

(***************************************************************************)
(* The Quiver listener (quiver::collector): run, a task per connection, a  *)
(* task per stream and the task each request spawns for save_spans.        *)
(***************************************************************************)
MaxConns == 2

MaxStreams == 2

ConnIds == 1..MaxConns

StreamIds == 1..MaxStreams

\* run after Endpoint::server: nothing accepted, no signal
ListenerInit ==
    [shutdown |-> FALSE,
     run |-> "accept",
     conn |-> [c \in ConnIds |-> "none"],
     request |-> [s \in StreamIds |-> "none"],
     request_conn |-> [s \in StreamIds |-> 0],
     before_signal |-> [s \in StreamIds |-> FALSE],
     save |-> [s \in StreamIds |-> "none"]]

(***************************************************************************)
(* The tracing layer (tracing_quiver::QuiverLayer) over the registry of    *)
(* spans: on_new_span builds the span, on_close emits it.                  *)
(***************************************************************************)
MaxSpans == 3

SpanIds == 1..MaxSpans

\* a span the registry does not hold
NoSpan ==
    [state |-> "none", parent |-> 0, skipped |-> FALSE, has_builder |-> FALSE,
     trace_id |-> 0, span_id |-> 0, parent_ref |-> << >>,
     has_timings |-> FALSE, busy |-> 0, idle |-> 0, last |-> 0, created |-> 0,
     target |-> << >>, tags |-> 0, logs |-> 0, follows |-> {}]

\* no callback of the layer has run
NoEvent == [kind |-> "none", id |-> 0, now |-> 0, busy |-> 0, idle |-> 0, last |-> 0]

\* the layer after build: no span yet; clock is the last reading of the
\* quanta clock, event the last callback with the Timings it found
LayerInit ==
    [span |-> [i \in SpanIds |-> NoSpan], emitted |-> {}, clock |-> 0,
     event |-> NoEvent]

(***************************************************************************)
(* The write path under concurrent callers, with find_trace as reader.     *)
(***************************************************************************)
Init ==
    /\ db = EmptyDb
    /\ tx = EmptyDb
    /\ lock = 0
    /\ pc = [c \in Callers |-> "idle"]
    /\ spans = [c \in Callers |-> << >>]
    /\ trace_info = [c \in Callers |-> << >>]
    /\ last_batch = << >>
    /\ resp = NoResp
    /\ client = ClientInit
    /\ listener = ListenerInit
    /\ layer = LayerInit

Next ==
    \/ \E c \in Callers : Call(c, StoreBatches)
    \/ \E c \in Callers : Lock(c)
    \/ \E c \in Callers : SaveServices(c)
    \/ \E c \in Callers : SaveOperations(c)
    \/ \E c \in Callers : SaveTraces(c)
    \/ \E c \in Callers : SaveSpans(c)
    \/ \E c \in Callers : Commit(c)
    \/ \E c \in Callers : Fail(c)
    \/ FindTrace
    \/ Return

Spec == Init /\ [][Next]_vars

\* the spans of the calls that have returned Ok
Persisted == UNION {Range(spans[c]) : c \in {x \in Callers : pc[x] = "ok"}}

TypeOK ==
    /\ lock \in {0} \cup Callers
    /\ \A c \in Callers : pc[c] \in {"idle", "wait", "ok", "err"} \cup InTx
    /\ \A c \in Callers : (pc[c] \in InTx) <=> (lock = c)

(***************************************************************************)
(* The tag filter of list_spans.                                           *)
(***************************************************************************)
HexDigits == <<"0", "1", "2", "3", "4", "5", "6", "7",
               "8", "9", "a", "b", "c", "d", "e", "f">>

HexRadix == 16

\* hex::encode: two lowercase digits per byte
RECURSIVE hex_encode(_)
hex_encode(bytes) ==
    IF bytes = << >> THEN ""
    ELSE HexDigits[(Head(bytes) \div HexRadix) + 1]
         \o HexDigits[(Head(bytes) % HexRadix) + 1]
         \o hex_encode(Tail(bytes))

TenthsPerUnit == 10

\* ryu::Buffer::format of a non-negative float held in tenths: 1.5, 2.0
ryu_format(tenths) ==
    ToString(tenths \div TenthsPerUnit) \o "." \o ToString(tenths % TenthsPerUnit)

\* the text a tag value is compared as
Render(value) ==
    CASE value.ty = "F64" -> ryu_format(value.v)
      [] value.ty \in {"I64", "U64", "I128", "U128"} -> ToString(value.v)
      [] value.ty = "Bool" -> (IF value.v THEN "true" ELSE "false")
      [] value.ty = "String" -> value.v
      [] value.ty = "Binary" -> hex_encode(value.v)

\* span_contains_tag: with an empty filter every span passes; otherwise a span
\* passes when any of its tags or process tags has a key of the filter and
\* renders to the value the filter holds for that key
span_contains_tag(span, filter) ==
    IF DOMAIN filter = {} THEN TRUE
    ELSE \E tag \in Range(span.tags) \cup Range(span.process.tags) :
            /\ tag.key \in DOMAIN filter
            /\ filter[tag.key] = Render(tag.value)

(***************************************************************************)
(* ReadOnlyDatabase::list_spans.                                           *)
(***************************************************************************)
None == [some |-> FALSE]

Some(v) == [some |-> TRUE, v |-> v]

\* the rows of list_traces.sql before ORDER BY and LIMIT: service = :service,
\* timestamp BETWEEN :t_min AND :t_max, max_duration >= :d_min and
\* min_duration <= :d_max where these are given
ListTracesWhere(t, service, t_min, t_max, d_min, d_max) ==
    {r \in t :
        /\ r.service = service
        /\ t_min <= r.timestamp /\ r.timestamp <= t_max
        /\ (d_min.some => r.max_duration >= d_min.v)
        /\ (d_max.some => r.min_duration <= d_max.v)}

\* list_traces.sql: ORDER BY timestamp DESC LIMIT :limit. The order among rows
\* of equal timestamp is not fixed, so this is the set of the possible results,
\* each the set of the selected trace_id keys.
ListTracesSql(t, service, t_min, t_max, d_min, d_max, limit) ==
    LET rows == ListTracesWhere(t, service, t_min, t_max, d_min, d_max)
        n == IF Cardinality(rows) < limit THEN Cardinality(rows) ELSE limit
    IN  {{r.trace_id : r \in pick} : pick \in
            {x \in SUBSET rows :
                /\ Cardinality(x) = n
                /\ \A a \in x, b \in rows \ x : a.timestamp >= b.timestamp}}

\* list_spans.sql: the payloads of the span rows whose trace is in the list
ListSpansSql(conn, keys) == {r.payload : r \in {x \in conn.span : x.trace_id \in keys}}

\* the fold over the spans of every stored trace, the selected ones or not
list_spans_fold_all_traces(conn, keys, tags) ==
    LET kept == {x \in {decode_span(r.payload) : r \in conn.span} :
                    span_contains_tag(x, tags)}
    IN  [t \in {x.trace_id : x \in kept} |-> {x \in kept : x.trace_id = t}]

\* the second query of list_spans and its fold: the spans of the selected
\* traces that pass the tag filter, grouped by their trace id
list_spans_fold(conn, keys, tags) ==
    LET ids == {from_bytes(k) : k \in keys}
        kept == {x \in {decode_span(p) :
                    p \in ListSpansSql(conn, {to_bytes(i) : i \in ids})} :
                    span_contains_tag(x, tags)}
    IN  [t \in {x.trace_id : x \in kept} |-> {x \in kept : x.trace_id = t}]

\* the possible results of list_spans(params), each with the trace keys the
\* first query selected
list_spans(conn, params) ==
    {[selected |-> keys, result |-> list_spans_fold(conn, keys, params.tags)] :
        keys \in ListTracesSql(conn.trace, params.service, params.start,
                    params.end,
                    IF params.duration_min.some
                        THEN Some(WholeMicroseconds(params.duration_min.v))
                        ELSE None,
                    IF params.duration_max.some
                        THEN Some(WholeMicroseconds(params.duration_max.v))
                        ELSE None,
                    params.limit)}

(***************************************************************************)
(* list_spans over the stores that sequences of save_spans calls leave.    *)
(***************************************************************************)
\* a whole save_spans call as the readers see it: the transaction either
\* commits all its statements or none
save_spans(conn, batch) ==
    LET info == from_spans(batch)
        c1 == save_service_loop(conn, batch, 1)
        c2 == save_operation_loop(c1, batch, 1)
        c3 == save_trace_loop(c2, info, DOMAIN info)
        r == save_span_loop(c3, batch, 1)
    IN  IF r.ok THEN r.conn ELSE conn

List5 == MkSpan(5, 1, "a", "x", 1, 1500, <<Tag("k1", "String", "v")>>, << >>)

List6 == MkSpan(6, 1, "a", "x", 2, 2500, <<Tag("k2", "I64", 1)>>,
                <<Tag("b", "Bool", TRUE)>>)

List7 == MkSpan(7, 1, "a", "y", 3, 500,
                <<Tag("f", "F64", 15), Tag("bin", "Binary", <<255, 1>>)>>, << >>)

List7b == MkSpan(7, 2, "b", "x", 2, 1500, <<Tag("k1", "String", "w")>>, << >>)

ListPool == {List5, List6, List7, List7b}

Services == {"a", "b"}

\* the tag filters of the queries
Filters ==
    { << >>,
      [k \in {"k1"} |-> "v"],
      [k \in {"k2"} |-> "1"],
      [k \in {"k1", "k2"} |-> IF k = "k1" THEN "v" ELSE "1"],
      [k \in {"b"} |-> "true"],
      [k \in {"f", "bin"} |-> IF k = "f" THEN "1.5" ELSE "ff01"] }

DurationBounds ==
    { <<None, None>>, <<Some(1500), None>>, <<None, Some(1500)>>,
      <<Some(1500), Some(2500)>> }

\* the parameters TracesQuery::into_db can produce: start < end, and
\* duration_min < duration_max where both are given
ListParams ==
    { [service |-> sv, operation |-> None, start |-> st, end |-> en,
       duration_min |-> d[1], duration_max |-> d[2], limit |-> li, tags |-> f] :
        sv \in Services, st \in Times, en \in Times, d \in DurationBounds,
        li \in 1..MaxLimit, f \in Filters }

\* save_spans returns: Ok with the batch committed, or Err with nothing
\* written. The calls of this specification come from one client, one after
\* the other.
SaveSpansCall(c, batches) ==
    /\ pc[c] = "idle"
    /\ resp = NoResp
    /\ \A d \in Callers : d < c => pc[d] # "idle"
    /\ \E batch \in batches, ok \in BOOLEAN :
        /\ db' = IF ok THEN save_spans(db, batch) ELSE db
        /\ pc' = [pc EXCEPT ![c] = IF ok THEN "ok" ELSE "err"]
    /\ UNCHANGED <<tx, lock, spans, trace_info, last_batch, resp, client, listener, layer>>

ListSpans ==
    /\ resp = NoResp
    /\ \E params \in {p \in ListParams : p.start < p.end} :
        \E r \in list_spans(db, params) :
            resp' = [op |-> "list_spans", params |-> params,
                     selected |-> r.selected, result |-> r.result]
    /\ UNCHANGED <<db, tx, lock, pc, spans, trace_info, last_batch, client, listener, layer>>

NextList ==
    \/ \E c \in Callers : SaveSpansCall(c, SeqsUpTo(ListPool, MaxBatchLen))
    \/ ListSpans
    \/ Return

SpecList == Init /\ [][NextList]_vars

(***************************************************************************)
(* The query API: GET /api/traces. A query string is a sequence of         *)
(* <<key, value>> pairs, a value a sequence of characters.                 *)
(***************************************************************************)
RECURSIVE Str(_)
Str(chars) == IF chars = << >> THEN "" ELSE Head(chars) \o Str(Tail(chars))

IndexOf(seq, x) ==
    IF \E i \in DOMAIN seq : seq[i] = x
    THEN Min({i \in DOMAIN seq : seq[i] = x})
    ELSE 0

\* u128::from_str_radix(s, 16): an error for the empty string and for a
\* character that is no hex digit
RECURSIVE from_str_radix(_, _)
from_str_radix(chars, acc) ==
    IF chars = << >> THEN [ok |-> TRUE, v |-> acc]
    ELSE IF IndexOf(HexDigits, Head(chars)) = 0 THEN [ok |-> FALSE]
    ELSE from_str_radix(Tail(chars),
            acc * HexRadix + (IndexOf(HexDigits, Head(chars)) - 1))

\* TraceId::from_str: a hex integer that is not zero
TraceIdFromStr(chars) ==
    IF chars = << >> THEN [ok |-> FALSE]
    ELSE LET r == from_str_radix(chars, 0)
         IN  IF r.ok /\ r.v # 0 THEN r ELSE [ok |-> FALSE]

\* serde::hex::serialize: lowercase hex, zero-padded to two digits per byte
RECURSIVE HexChars(_, _)
HexChars(n, width) ==
    IF width = 0 THEN << >>
    ELSE Append(HexChars(n \div HexRadix, width - 1), HexDigits[(n % HexRadix) + 1])

TraceIdHexWidth == 32

TraceIdToHex(id) == Str(HexChars(id, TraceIdHexWidth))

\* str::split_once(':')
SplitOnce(chars) ==
    LET i == IndexOf(chars, ":")
    IN  IF i = 0 THEN [ok |-> FALSE]
        ELSE [ok |-> TRUE, k |-> Str(SubSeq(chars, 1, i - 1)),
              v |-> Str(SubSeq(chars, i + 1, Len(chars)))]

Keys(q) == {q[i][1] : i \in DOMAIN q}

\* the quotation mark
Quote == "\""

\* a JSON string without escapes at the head of chars
json_string(chars) ==
    IF chars = << >> \/ Head(chars) # Quote THEN [ok |-> FALSE]
    ELSE CHOOSE out \in
            {IF close = 0 THEN [ok |-> FALSE]
             ELSE [ok |-> TRUE, v |-> Str(SubSeq(chars, 2, close)),
                   rest |-> SubSeq(chars, close + 2, Len(chars))] :
                close \in {IndexOf(Tail(chars), Quote)}} : TRUE

\* the members of a JSON object of strings, up to the closing brace; a
\* later member of a key replaces an earlier one
RECURSIVE json_members(_, _)
json_members(chars, map) ==
    CHOOSE out \in
        {IF ~k.ok \/ k.rest = << >> \/ Head(k.rest) # ":" THEN [ok |-> FALSE]
         ELSE CHOOSE res \in
                {IF ~v.ok \/ v.rest = << >> THEN [ok |-> FALSE]
                 ELSE IF v.rest = <<"}">>
                 THEN [ok |-> TRUE,
                       v |-> [key \in DOMAIN map \cup {k.v} |->
                                IF key = k.v THEN v.v ELSE map[key]]]
                 ELSE IF Head(v.rest) = ","
                 THEN json_members(Tail(v.rest),
                        [key \in DOMAIN map \cup {k.v} |->
                            IF key = k.v THEN v.v ELSE map[key]])
                 ELSE [ok |-> FALSE] :
                    v \in {json_string(Tail(k.rest))}} : TRUE :
            k \in {json_string(chars)}} : TRUE

\* serde_json::from_str::<HashMap<String, String>>
serde_json_from_str(chars) ==
    IF chars = << >> \/ Head(chars) # "{" THEN [ok |-> FALSE]
    ELSE IF Tail(chars) = <<"}">> THEN [ok |-> TRUE, v |-> << >>]
    ELSE json_members(Tail(chars), << >>)

\* HashMap::extend held back: the entries of tags replace the map
extend_replacing(map, kvs) == kvs

\* HashMap::extend: the entries of kvs enter the map
extend(map, kvs) ==
    [k \in DOMAIN map \cup DOMAIN kvs |-> IF k \in DOMAIN kvs THEN kvs[k] ELSE map[k]]

\* de::tags (TagsVisitor) over the pairs no named field of TracesQuery took:
\* every tag=<k>:<v> enters the map, a later entry of a key replacing an
\* earlier one, and so do the entries of every tags=<JSON object>; a tag
\* value without ':' and a tags value that is no JSON object of strings are
\* errors
RECURSIVE TagsVisitor(_, _)
TagsVisitor(q, map) ==
    IF q = << >> THEN [ok |-> TRUE, v |-> map]
    ELSE IF Head(q)[1] = "tag"
    THEN LET kv == SplitOnce(Head(q)[2])
         IN  IF ~kv.ok THEN [ok |-> FALSE]
             ELSE TagsVisitor(Tail(q),
                    [k \in DOMAIN map \cup {kv.k} |->
                        IF k = kv.k THEN kv.v ELSE map[k]])
    ELSE IF Head(q)[1] = "tags"
    THEN CHOOSE out \in
            {IF ~kvs.ok THEN [ok |-> FALSE]
             ELSE TagsVisitor(Tail(q), extend(map, kvs.v)) :
                kvs \in {serde_json_from_str(Head(q)[2])}} : TRUE
    ELSE TagsVisitor(Tail(q), map)

DecDigits == <<"0", "1", "2", "3", "4", "5", "6", "7", "8", "9">>

DecRadix == 10

\* str::parse::<i64> of the digits after the sign: an error for a character
\* that is no decimal digit
RECURSIVE parse_digits(_, _)
parse_digits(chars, acc) ==
    IF chars = << >> THEN [ok |-> TRUE, v |-> acc]
    ELSE IF IndexOf(DecDigits, Head(chars)) = 0 THEN [ok |-> FALSE]
    ELSE parse_digits(Tail(chars),
            acc * DecRadix + (IndexOf(DecDigits, Head(chars)) - 1))

\* de::duration_micros (DurationMicrosVisitor): the value parses as an i64,
\* with an optional sign, and is taken as it is
DurationMicrosVisitor(chars) ==
    IF chars = << >> THEN [ok |-> FALSE]
    ELSE IF Head(chars) = "-"
    THEN (IF Tail(chars) = << >> THEN [ok |-> FALSE]
          ELSE LET r == parse_digits(Tail(chars), 0)
               IN  IF r.ok THEN [ok |-> TRUE, v |-> 0 - r.v] ELSE r)
    ELSE parse_digits(chars, 0)

\* an optional field of TracesQuery: absent, given once and parsed, or an error
OptionalField(q, name) ==
    LET at == {i \in DOMAIN q : q[i][1] = name}
    IN  IF at = {} THEN [ok |-> TRUE, v |-> None]
        ELSE IF Cardinality(at) > 1 THEN [ok |-> FALSE]
        ELSE LET r == DurationMicrosVisitor(q[CHOOSE i \in at : TRUE][2])
             IN  IF r.ok THEN [ok |-> TRUE, v |-> Some(r.v)] ELSE [ok |-> FALSE]

\* Query<TracesQuery>: service is required and may appear once; start and end
\* are optional; the other fields default
ParseTracesQuery(q) ==
    LET tags == TagsVisitor(q, << >>)
        named == {i \in DOMAIN q : q[i][1] = "service"}
        start == OptionalField(q, "start")
        end == OptionalField(q, "end")
    IN  IF Cardinality(named) # 1 \/ ~tags.ok \/ ~start.ok \/ ~end.ok
        THEN [ok |-> FALSE]
        ELSE [ok |-> TRUE,
              v |-> [service |-> Str(q[CHOOSE i \in named : TRUE][2]),
                     operation |-> "", start |-> start.v, end |-> end.v,
                     min_duration |-> None, max_duration |-> None,
                     limit |-> None, tags |-> tags.v]]

\* de::trace_ids (TraceIdsVisitor): every key is traceID, every value a trace
\* id, and there is at least one
RECURSIVE TraceIdsVisitor(_, _)
TraceIdsVisitor(q, ids) ==
    IF q = << >>
    THEN (IF ids = << >> THEN [ok |-> FALSE] ELSE [ok |-> TRUE, v |-> ids])
    ELSE IF Head(q)[1] # "traceID" THEN [ok |-> FALSE]
    ELSE LET id == TraceIdFromStr(Head(q)[2])
         IN  IF ~id.ok THEN [ok |-> FALSE]
             ELSE TraceIdsVisitor(Tail(q), Append(ids, id.v))

ParseTraceIdsQuery(q) == TraceIdsVisitor(q, << >>)

LookbackHours == 48

DefaultLimit == 20

\* the largest distance from the epoch an OffsetDateTime holds, in the time
\* unit of the requests
DateTimeRange == 100

\* TracesQuery::into_db at the time now. UNIX_EPOCH + start and UNIX_EPOCH +
\* end panic when the sum is no OffsetDateTime, before any ensure! is reached
\* for start and before start < end is compared for end.
into_db(query, now) ==
    LET InRange(d) == (0 - DateTimeRange) <= d /\ d <= DateTimeRange
        start == IF query.start.some THEN query.start.v ELSE now - LookbackHours
        end == IF query.end.some THEN query.end.v ELSE now
    IN  IF query.service = ""
        THEN [ok |-> FALSE, panic |-> FALSE, msg |-> "service name must be specified"]
        ELSE IF ~InRange(start) \/ ~InRange(end)
        THEN [ok |-> FALSE, panic |-> TRUE, msg |-> "resulting value is out of range"]
        ELSE IF ~(start < end)
        THEN [ok |-> FALSE, panic |-> FALSE, msg |-> "start must be before end"]
        ELSE IF query.min_duration.some /\ query.max_duration.some
                /\ ~(query.min_duration.v < query.max_duration.v)
        THEN [ok |-> FALSE, panic |-> FALSE,
              msg |-> " minimum duration must be smaller than maximum"]
        ELSE [ok |-> TRUE, panic |-> FALSE,
              v |-> [service |-> query.service,
                     operation |-> IF query.operation # ""
                                   THEN Some(query.operation) ELSE None,
                     start |-> start, end |-> end,
                     duration_min |-> query.min_duration,
                     duration_max |-> query.max_duration,
                     limit |-> IF query.limit.some THEN query.limit.v
                               ELSE DefaultLimit,
                     tags |-> query.tags]]

StatusOk == 200

StatusBadRequest == 400

StatusNotFound == 404

\* no response: the handler panicked and the connection is closed
NoStatus == 0

HandlerPanicked(storage) ==
    [status |-> NoStatus, data |-> {}, storage |-> storage, errors |-> << >>]

\* ApiError serialised by ApiResponse: the response carries the error's code
\* as its status and one error object; trace_id is left out when absent
ApiErrorResponse(code, msg, trace_id, storage) ==
    [status |-> code, data |-> {}, storage |-> storage,
     errors |-> <<IF trace_id.some
                  THEN [code |-> code, msg |-> msg,
                        trace_id |-> TraceIdToHex(trace_id.v)]
                  ELSE [code |-> code, msg |-> msg]>>]

\* ApiResponse::Data of the traces found, each under its trace id in hex
ApiDataResponse(found, storage) ==
    [status |-> StatusOk, storage |-> storage, errors |-> << >>,
     data |-> {[traceID |-> TraceIdToHex(t), spans |-> found[t]] : t \in DOMAIN found}]

\* the handler traces: the possible responses to the query string q. storage
\* names the storage query the handler ran.
traces(conn, q, now) ==
    LET query == ParseTracesQuery(q)
        trace_ids == ParseTraceIdsQuery(q)
    IN  IF query.ok /\ ~trace_ids.ok
        THEN LET params == into_db(query.v, now)
             IN  IF params.panic THEN {HandlerPanicked("none")}
                 ELSE IF ~params.ok
                 THEN {ApiErrorResponse(StatusBadRequest, params.msg, None, "none")}
                 ELSE {ApiDataResponse(r.result, "list_spans") :
                        r \in list_spans(conn, params.v)}
        ELSE IF ~query.ok /\ trace_ids.ok
        THEN LET found == find_traces(conn, Range(trace_ids.v))
             IN  IF DOMAIN found = {}
                 THEN {ApiErrorResponse(StatusNotFound, "trace id not found",
                                        Some(trace_ids.v[1]), "find_traces")}
                 ELSE {ApiDataResponse(found, "find_traces")}
        ELSE IF query.ok /\ trace_ids.ok
        THEN {ApiErrorResponse(StatusBadRequest,
                "can't search by trace IDs and query at the same time",
                None, "none")}
        ELSE {ApiErrorResponse(StatusBadRequest, "query rejected", None, "none")}

\* the pairs the requests are made of
QueryPairs ==
    { <<"service", <<"a">> >>, <<"service", << >> >>,
      <<"traceID", HexChars(5, TraceIdHexWidth)>>,
      <<"traceID", HexChars(6, TraceIdHexWidth)>>,
      <<"traceID", <<"0">> >>, <<"traceID", <<"5">> >>,
      <<"tag", <<"k", "1", ":", "v">> >>, <<"tag", <<"k", "1">> >>,
      <<"start", <<"2">> >>, <<"start", <<"9", "9", "9">> >>,
      <<"end", <<"2">> >>, <<"end", <<"-", "1">> >>, <<"end", <<"x">> >> }

MaxQueryLen == 2

\* the present, after every stored start
Now == MaxTime + 1

GetTraces ==
    /\ resp = NoResp
    /\ \E q \in SeqsUpTo(QueryPairs, MaxQueryLen) :
        \E r \in traces(db, q, Now) :
            resp' = [op |-> "GET /api/traces", query |-> q, status |-> r.status,
                     data |-> r.data, errors |-> r.errors, storage |-> r.storage]
    /\ UNCHANGED <<db, tx, lock, pc, spans, trace_info, last_batch, client, listener, layer>>

NextHttp ==
    \/ \E c \in Callers : SaveSpansCall(c, SeqsUpTo(ListPool, MaxBatchLen))
    \/ GetTraces
    \/ Return

SpecHttp == Init /\ [][NextHttp]_vars

(***************************************************************************)
(* The input adapters. An i64 or u64 of the wire is held as one byte (a    *)
(* signed one in -128..127 for an i64), so a span id is one byte and a     *)
(* trace id two; times keep their units.                                   *)
(***************************************************************************)
\* the outcomes of a conversion
ConvOk(v) == [kind |-> "ok", v |-> v]

ConvErr == [kind |-> "err"]

ConvPanic == [kind |-> "panic"]

\* the sequences whose i-th element is drawn from the i-th set
RECURSIVE AllSeqs(_)
AllSeqs(sets) ==
    IF sets = << >> THEN {<< >>}
    ELSE {<<h>> \o t : h \in Head(sets), t \in AllSeqs(Tail(sets))}

\* integer division and remainder that truncate toward zero, as / and % do
TruncDiv(a, b) == IF a >= 0 THEN a \div b ELSE 0 - ((0 - a) \div b)

TruncRem(a, b) == a - b * TruncDiv(a, b)

\* i64::to_be_bytes: the two's complement of the value
to_be_bytes(x) == <<x % ByteRadix>>

\* u128::from_be_bytes and u64::from_be_bytes
RECURSIVE from_be_bytes(_)
from_be_bytes(buf) ==
    IF buf = << >> THEN 0
    ELSE from_be_bytes(SubSeq(buf, 1, Len(buf) - 1)) * ByteRadix + buf[Len(buf)]

\* the values rand::random can return for a NonZeroU128 and a NonZeroU64
RandomNonZeroU128 == {5, 9}

RandomNonZeroU64 == {1, 9}

MicrosPerSecond == 1000000

NanosPerSecond == 1000000000

\* the latest instant of the model that is an OffsetDateTime, in nanoseconds
MaxTimestampNanos == 2000000000

(***************************************************************************)
(* convert::thrift: Jaeger Thrift to the Jaeger proto model.               *)
(***************************************************************************)
ThriftSpanRef(ty, high, low, sid) ==
    [ref_type |-> ty, trace_id_high |-> high, trace_id_low |-> low, span_id |-> sid]

\* thrift::parent_span_id that compares the span id of a reference only
thrift_parent_span_id_any_trace(span_id, trace_id, references) ==
    IF span_id = 0 \/ \E i \in DOMAIN references : references[i].span_id = span_id
    THEN << >>
    ELSE <<ThriftSpanRef("CHILD_OF", trace_id[1], trace_id[2], span_id)>>

\* thrift::parent_span_id: the ChildOf reference of the parent_span_id field,
\* unless that is zero or a reference to the same span exists
thrift_parent_span_id(span_id, trace_id, references) ==
    IF span_id = 0
        \/ \E i \in DOMAIN references :
            /\ references[i].span_id = span_id
            /\ references[i].trace_id_high = trace_id[1]
            /\ references[i].trace_id_low = trace_id[2]
    THEN << >>
    ELSE <<ThriftSpanRef("CHILD_OF", trace_id[1], trace_id[2], span_id)>>

\* thrift::trace_id: the bytes of high followed by the bytes of low
thrift_trace_id(high, low) == to_be_bytes(high) \o to_be_bytes(low)

\* thrift::span_ref with thrift::span_ref_type
thrift_span_ref(span_ref) ==
    IF span_ref.ref_type \notin {"CHILD_OF", "FOLLOWS_FROM"} THEN ConvErr
    ELSE ConvOk([trace_id |-> thrift_trace_id(span_ref.trace_id_high,
                                              span_ref.trace_id_low),
                 span_id |-> to_be_bytes(span_ref.span_id),
                 ref_type |-> IF span_ref.ref_type = "CHILD_OF"
                              THEN "ChildOf" ELSE "FollowsFrom"])

\* thrift::micros that leaves the rest in microseconds
thrift_micros_rest_in_micros(micros) ==
    [seconds |-> TruncDiv(micros, MicrosPerSecond),
     nanos |-> TruncRem(micros, MicrosPerSecond)]

\* thrift::micros: whole seconds and the rest in nanoseconds
thrift_micros(micros) ==
    [seconds |-> TruncDiv(micros, MicrosPerSecond),
     nanos |-> NanosPerMicro * TruncRem(micros, MicrosPerSecond)]

\* the proto KeyValue with every value field at its default
KeyValueDefault(key, ty) ==
    [key |-> key, v_type |-> ty, v_str |-> "", v_bool |-> FALSE, v_int64 |-> 0,
     v_float64 |-> 0, v_binary |-> << >>]

\* thrift::tag: the value field of the tag's type, or its default when absent
thrift_tag(tag) ==
    CASE tag.v_type = "BOOL" ->
            ConvOk([KeyValueDefault(tag.key, "Bool") EXCEPT
                    !.v_bool = IF tag.v.some THEN tag.v.v ELSE FALSE])
      [] tag.v_type = "BINARY" ->
            ConvOk([KeyValueDefault(tag.key, "Binary") EXCEPT
                    !.v_binary = IF tag.v.some THEN tag.v.v ELSE << >>])
      [] tag.v_type = "DOUBLE" ->
            ConvOk([KeyValueDefault(tag.key, "Float64") EXCEPT
                    !.v_float64 = IF tag.v.some THEN tag.v.v ELSE 0])
      [] tag.v_type = "LONG" ->
            ConvOk([KeyValueDefault(tag.key, "Int64") EXCEPT
                    !.v_int64 = IF tag.v.some THEN tag.v.v ELSE 0])
      [] tag.v_type = "STRING" ->
            ConvOk([KeyValueDefault(tag.key, "String") EXCEPT
                    !.v_str = IF tag.v.some THEN tag.v.v ELSE ""])
      [] OTHER -> ConvErr

\* collect::<Result<_>>: the converted elements, or the first error
Collect(results) ==
    IF \E i \in DOMAIN results : results[i].kind # "ok" THEN ConvErr
    ELSE ConvOk([i \in DOMAIN results |-> results[i].v])

\* thrift::process
thrift_process(process) ==
    LET tags == Collect([i \in DOMAIN process.tags |-> thrift_tag(process.tags[i])])
    IN  IF tags.kind # "ok" THEN ConvErr
        ELSE ConvOk([service_name |-> process.service_name, tags |-> tags.v])

\* thrift::span: the proto span of a Thrift span and the process of its batch
thrift_span(span, proc) ==
    LET parent == thrift_parent_span_id(span.parent_span_id,
                        <<span.trace_id_high, span.trace_id_low>>, span.references)
        all == parent \o span.references
        references == Collect([i \in DOMAIN all |-> thrift_span_ref(all[i])])
        tags == Collect([i \in DOMAIN span.tags |-> thrift_tag(span.tags[i])])
        process == IF proc.some THEN thrift_process(proc.v) ELSE ConvOk(None)
    IN  IF references.kind # "ok" \/ tags.kind # "ok" \/ process.kind # "ok"
        THEN ConvErr
        ELSE ConvOk(
            [trace_id |-> thrift_trace_id(span.trace_id_high, span.trace_id_low),
             span_id |-> to_be_bytes(span.span_id),
             operation_name |-> span.operation_name,
             references |-> references.v,
             flags |-> span.flags % ByteRadix,
             start_time |-> Some(thrift_micros(span.start_time)),
             duration |-> Some(thrift_micros(span.duration)),
             tags |-> tags.v,
             logs |-> << >>,
             process |-> IF proc.some THEN Some(process.v) ELSE None])

(***************************************************************************)
(* convert::proto: the Jaeger proto model to the canonical model.          *)
(***************************************************************************)
\* the bytes of a trace id and of a span id
TraceIdLen == 2

SpanIdLen == 1

\* proto::trace_id that keeps a zero id
proto_trace_id_keep_zero(id) == {from_be_bytes(id)}

\* proto::trace_id: the possible ids; a zero id is replaced by a random one
proto_trace_id(id) ==
    IF from_be_bytes(id) = 0 THEN RandomNonZeroU128 ELSE {from_be_bytes(id)}

\* proto::span_id
proto_span_id(id) ==
    IF from_be_bytes(id) = 0 THEN RandomNonZeroU64 ELSE {from_be_bytes(id)}

\* proto::reference: the possible references; an unknown type reads as ChildOf
proto_reference(span_ref) ==
    {[ty |-> IF span_ref.ref_type = "FollowsFrom" THEN "FollowsFrom" ELSE "ChildOf",
      trace_id |-> t, span_id |-> i] :
        t \in proto_trace_id(span_ref.trace_id), i \in proto_span_id(span_ref.span_id)}

\* proto::timestamp: seconds and nanoseconds as one instant, an error outside
\* the range of OffsetDateTime
proto_timestamp(timestamp) ==
    LET nanos == timestamp.seconds * NanosPerSecond + timestamp.nanos
    IN  IF nanos > MaxTimestampNanos \/ nanos < 0 - MaxTimestampNanos THEN ConvErr
        ELSE ConvOk(nanos)

\* proto::duration
proto_duration(duration) == duration.seconds * NanosPerSecond + duration.nanos

\* proto::key_value: the value field the type names
proto_key_value(kv) ==
    CASE kv.v_type = "String" -> Tag(kv.key, "String", kv.v_str)
      [] kv.v_type = "Bool" -> Tag(kv.key, "Bool", kv.v_bool)
      [] kv.v_type = "Int64" -> Tag(kv.key, "I64", kv.v_int64)
      [] kv.v_type = "Float64" -> Tag(kv.key, "F64", kv.v_float64)
      [] kv.v_type = "Binary" -> Tag(kv.key, "Binary", kv.v_binary)

\* proto::process
proto_process(process) ==
    [service |-> process.service_name,
     tags |-> [i \in DOMAIN process.tags |-> proto_key_value(process.tags[i])]]

ZeroTimestamp == [seconds |-> 0, nanos |-> 0]

\* proto::span: the possible outcomes. copy_from_slice panics for an id that
\* has not the length of its buffer.
proto_span(span) ==
    IF \/ Len(span.trace_id) # TraceIdLen \/ Len(span.span_id) # SpanIdLen
       \/ \E i \in DOMAIN span.references :
            \/ Len(span.references[i].trace_id) # TraceIdLen
            \/ Len(span.references[i].span_id) # SpanIdLen
    THEN {ConvPanic}
    ELSE LET start == proto_timestamp(IF span.start_time.some
                                      THEN span.start_time.v ELSE ZeroTimestamp)
         IN  IF start.kind # "ok" \/ ~span.process.some THEN {ConvErr}
             ELSE {ConvOk(MkFullSpan(t, i, span.operation_name, span.flags, refs,
                        start.v,
                        proto_duration(IF span.duration.some
                                       THEN span.duration.v ELSE ZeroTimestamp),
                        [k \in DOMAIN span.tags |-> proto_key_value(span.tags[k])],
                        << >>, proto_process(span.process.v))) :
                    t \in proto_trace_id(span.trace_id),
                    i \in proto_span_id(span.span_id),
                    refs \in AllSeqs([k \in DOMAIN span.references |->
                                        proto_reference(span.references[k])])}

\* the Thrift adapter: thrift::span, then proto::span
span_from_thrift(span, proc) ==
    LET p == thrift_span(span, proc)
    IN  IF p.kind # "ok" THEN {p} ELSE proto_span(p.v)

(***************************************************************************)
(* convert::otlp: OTLP resource spans to the canonical model.              *)
(***************************************************************************)
\* otlp::trace_id: the id of the bytes when they have the length of a trace id
\* and are not zero, a random non-zero id otherwise
otlp_trace_id(id) ==
    IF Len(id) = TraceIdLen /\ from_be_bytes(id) # 0
    THEN {from_be_bytes(id)} ELSE RandomNonZeroU128

\* otlp::span_id
otlp_span_id(id) ==
    IF Len(id) = SpanIdLen /\ from_be_bytes(id) # 0
    THEN {from_be_bytes(id)} ELSE RandomNonZeroU64

\* otlp::timestamp
otlp_timestamp(timestamp) ==
    IF timestamp > MaxTimestampNanos THEN ConvErr ELSE ConvOk(timestamp)

\* otlp::tag: the tag of an attribute, nothing for an attribute without value
otlp_tag(attribute) ==
    IF ~attribute.value.some THEN << >>
    ELSE <<Tag(attribute.key,
               CASE attribute.value.v.ty = "StringValue" -> "String"
                 [] attribute.value.v.ty = "BoolValue" -> "Bool"
                 [] attribute.value.v.ty = "IntValue" -> "I64"
                 [] attribute.value.v.ty = "DoubleValue" -> "F64",
               attribute.value.v.v)>>

\* the tags of a sequence of attributes, in their order
RECURSIVE otlp_tags(_)
otlp_tags(attributes) ==
    IF attributes = << >> THEN << >>
    ELSE otlp_tag(Head(attributes)) \o otlp_tags(Tail(attributes))

\* otlp::tag_from_span_kind
tag_from_span_kind(kind) ==
    IF kind = "Unspecified" THEN << >>
    ELSE <<Tag("span.kind", "String",
               CASE kind = "Internal" -> "internal" [] kind = "Server" -> "server"
                 [] kind = "Client" -> "client" [] kind = "Producer" -> "producer"
                 [] kind = "Consumer" -> "consumer")>>

ServiceNameKey == "service.name"

\* otlp::find_service_name: the value of the first service.name attribute is
\* taken out of it; the name is that value when it is a string
find_service_name(attributes) ==
    LET at == {i \in DOMAIN attributes : attributes[i].key = ServiceNameKey}
    IN  IF at = {} THEN [name |-> None, attributes |-> attributes]
        ELSE LET i == Min(at)
                 value == attributes[i].value
             IN  [name |-> IF value.some /\ value.v.ty = "StringValue"
                           THEN Some(value.v.v) ELSE None,
                  attributes |-> [attributes EXCEPT ![i].value = None]]

\* otlp::resource: the process of a resource
otlp_resource(resource) ==
    IF resource.attributes = << >>
    THEN [service |-> "OTLPResourceNoServiceName", tags |-> << >>]
    ELSE LET found == find_service_name(resource.attributes)
         IN  [service |-> IF found.name.some THEN found.name.v ELSE "",
              tags |-> otlp_tags(found.attributes)]

\* otlp::link
otlp_link(link) ==
    {[ty |-> "FollowsFrom", trace_id |-> t, span_id |-> i] :
        t \in otlp_trace_id(link.trace_id), i \in otlp_span_id(link.span_id)}

\* otlp::span2: the possible outcomes for one span
otlp_span2(span, process) ==
    LET start == otlp_timestamp(span.start_time_unix_nano)
        end == otlp_timestamp(span.end_time_unix_nano)
    IN  IF start.kind # "ok" \/ end.kind # "ok" THEN {ConvErr}
        ELSE UNION {
                {ConvOk(MkFullSpan(t, i, span.name, 1, parent \o links, start.v,
                        end.v - start.v,
                        tag_from_span_kind(span.kind) \o otlp_tags(span.attributes),
                        << >>, process)) :
                    i \in otlp_span_id(span.span_id),
                    parent \in IF \E k \in DOMAIN span.parent_span_id :
                                    span.parent_span_id[k] # 0
                               THEN {<<[ty |-> "ChildOf", trace_id |-> t,
                                        span_id |-> p]>> :
                                        p \in otlp_span_id(span.parent_span_id)}
                               ELSE {<< >>},
                    links \in AllSeqs([k \in DOMAIN span.links |->
                                        otlp_link(span.links[k])])} :
                t \in otlp_trace_id(span.trace_id)}

\* the outcomes of converting every element: the sequences of the converted
\* values, or the error of an element
CollectAll(outcomes) ==
    {ConvOk(q) : q \in AllSeqs([i \in DOMAIN outcomes |->
                    {o.v : o \in {x \in outcomes[i] : x.kind = "ok"}}])}
    \cup {o \in UNION Range(outcomes) : o.kind # "ok"}

\* otlp::span: the possible outcomes for the spans of one resource
span_from_otlp(res_spans) ==
    LET resource == IF res_spans.resource.some THEN res_spans.resource.v
                    ELSE [attributes |-> << >>]
    IN  IF resource.attributes = << >> /\ res_spans.spans = << >>
        THEN {ConvOk(<< >>)}
        ELSE CollectAll([i \in DOMAIN res_spans.spans |->
                otlp_span2(res_spans.spans[i], otlp_resource(resource))])

(***************************************************************************)
(* The ingest handlers over the adapters. Each converts its request, and   *)
(* on success hands the spans to save_spans in a task of its own. One      *)
(* request is followed from the empty store.                               *)
(***************************************************************************)
ThriftTag(k, ty, v) == [key |-> k, v_type |-> ty, v |-> v]

ThriftSpan(high, low, sid, parent, op, refs, fl, st, du, tg) ==
    [trace_id_high |-> high, trace_id_low |-> low, span_id |-> sid,
     parent_span_id |-> parent, operation_name |-> op, references |-> refs,
     flags |-> fl, start_time |-> st, duration |-> du, tags |-> tg]

\* a span with every identifier set, one with every identifier zero, one with
\* negative fields, and spans no conversion accepts
ThriftPlain ==
    ThriftSpan(0, 5, 9, 0, "x", << >>, 1, 1500000, 250,
        <<ThriftTag("k1", "STRING", Some("v")), ThriftTag("k2", "LONG", Some(1)),
          ThriftTag("b", "BOOL", Some(TRUE))>>)

ThriftZeroIds ==
    ThriftSpan(0, 0, 0, 3, "y", <<ThriftSpanRef("CHILD_OF", 0, 0, 0)>>, 0, 0, 0,
        <<ThriftTag("f", "DOUBLE", Some(15)),
          ThriftTag("bin", "BINARY", Some(<<255, 1>>))>>)

ThriftNegative ==
    ThriftSpan(-1, -2, -1, 7, "z", <<ThriftSpanRef("FOLLOWS_FROM", -1, -2, 7)>>,
        -1, -1, 1500000, <<ThriftTag("k", "STRING", None)>>)

ThriftBadTag ==
    ThriftSpan(0, 6, 1, 0, "x", << >>, 1, 1, 1, <<ThriftTag("k", "OTHER", None)>>)

ThriftBadRef ==
    ThriftSpan(0, 6, 1, 0, "x", <<ThriftSpanRef("OTHER", 0, 6, 2)>>, 1, 1, 1, << >>)

ThriftLate == ThriftSpan(0, 6, 1, 0, "x", << >>, 1, 2100000, 1, << >>)

ThriftProcesses ==
    { None,
      Some([service_name |-> "svc", tags |-> <<ThriftTag("host", "STRING", Some("h"))>>]),
      Some([service_name |-> "", tags |-> << >>]) }

\* the Thrift batches of the requests
ThriftBatches ==
    {[process |-> proc, spans |-> ss] :
        proc \in ThriftProcesses,
        ss \in { <<ThriftPlain>>, <<ThriftZeroIds>>, <<ThriftNegative>>,
                    <<ThriftPlain, ThriftZeroIds>>, <<ThriftPlain, ThriftBadTag>>,
                    <<ThriftBadRef>>, <<ThriftLate>> }}

StatusAccepted == 202

StatusUnsupportedMediaType == 415

StatusInternalServerError == 500

\* the response of an ingest handler to the request http, with the message
\* it decoded from it and the spans it handed to save_spans
IngestResp(op, http, request, outcome, saved, status) ==
    [op |-> op, http |-> http, request |-> request, outcome |-> outcome,
     saved |-> saved, status |-> status]

\* what the task that runs save_spans leaves: the batch, or nothing on an error
SpawnSaveSpans(batch) ==
    \E ok \in BOOLEAN : db' = IF ok THEN save_spans(db, batch) ELSE db

\* the bodies of the requests to POST /api/traces: the Thrift-binary form of
\* a batch, bytes that are no Thrift batch, and a body that cannot be read
ThriftBodies ==
    {[kind |-> "batch", batch |-> b] : b \in ThriftBatches}
    \cup {[kind |-> "undecodable"], [kind |-> "unreadable"]}

\* Thrift::from_request: the bytes of the body, then Batch::deserialize
thrift_from_request(body) ==
    CASE body.kind = "unreadable" -> [kind |-> "err", rejection |-> "Bytes"]
      [] body.kind = "undecodable" -> [kind |-> "err", rejection |-> "Decode"]
      [] body.kind = "batch" -> ConvOk(body.batch)

\* ThriftRejection::into_response
thrift_rejection_into_response(rejection) == StatusInternalServerError

\* jaeger::collector::traces: POST /api/traces, the Thrift extractor first
PostThrift(c) ==
    /\ \A d \in Callers : pc[d] = "idle"
    /\ resp = NoResp
    /\ \E body \in ThriftBodies :
        \E extracted \in {thrift_from_request(body)} :
            IF extracted.kind # "ok"
            THEN /\ db' = db
                 /\ resp' = IngestResp("thrift", body, body, "rejected", << >>,
                        thrift_rejection_into_response(extracted.rejection))
            ELSE \E o \in CollectAll([i \in DOMAIN extracted.v.spans |->
                        span_from_thrift(extracted.v.spans[i], extracted.v.process)]) :
                IF o.kind = "ok"
                THEN /\ SpawnSaveSpans(o.v)
                     /\ resp' = IngestResp("thrift", body, extracted.v, "accepted",
                            o.v, StatusAccepted)
                ELSE /\ db' = db
                     /\ resp' = IF o.kind = "err"
                                THEN IngestResp("thrift", body, extracted.v,
                                        "rejected", << >>, StatusBadRequest)
                                ELSE IngestResp("thrift", body, extracted.v,
                                        "panicked", << >>, NoStatus)
    /\ pc' = [pc EXCEPT ![c] = "ok"]
    /\ UNCHANGED <<tx, lock, spans, trace_info, last_batch, client, listener, layer>>

ProtoSpan(tid, sid, op, refs, fl, st, du, tg, proc) ==
    [trace_id |-> tid, span_id |-> sid, operation_name |-> op, references |-> refs,
     flags |-> fl, start_time |-> st, duration |-> du, tags |-> tg, logs |-> << >>,
     process |-> proc]

ProtoProcess(name) ==
    [service_name |-> name,
     tags |-> <<[KeyValueDefault("host", "String") EXCEPT !.v_str = "h"]>>]

\* a span with its identifiers set, one with zero identifiers and a reference
\* of zero identifiers, one with a process of its own that names no service,
\* one without the bytes of a trace id, and one that starts too late
ProtoPlain ==
    ProtoSpan(<<0, 5>>, <<9>>, "x", << >>, 1, Some([seconds |-> 1, nanos |-> 500]),
        Some([seconds |-> 0, nanos |-> 2500]),
        <<[KeyValueDefault("k2", "Int64") EXCEPT !.v_int64 = 1]>>, None)

ProtoZeroIds ==
    ProtoSpan(<<0, 0>>, <<0>>, "y",
        <<[trace_id |-> <<0, 0>>, span_id |-> <<0>>, ref_type |-> "FollowsFrom"]>>,
        0, None, None, << >>, None)

ProtoOwnProcess ==
    ProtoSpan(<<0, 6>>, <<1>>, "x", << >>, 1, None, None, << >>,
        Some(ProtoProcess("")))

ProtoNoTraceId ==
    ProtoSpan(<< >>, <<1>>, "x", << >>, 1, None, None, << >>, None)

ProtoLate ==
    ProtoSpan(<<0, 6>>, <<1>>, "x", << >>, 1, Some([seconds |-> 2, nanos |-> 1]),
        None, << >>, None)

\* the PostSpansRequests
ProtoRequests ==
    {[batch |-> None]}
    \cup {[batch |-> Some([process |-> proc, spans |-> ss])] :
            proc \in {None, Some(ProtoProcess("svc")), Some(ProtoProcess(""))},
            ss \in { <<ProtoPlain>>, <<ProtoZeroIds>>, <<ProtoOwnProcess>>,
                     <<ProtoPlain, ProtoZeroIds>>, <<ProtoNoTraceId>>,
                     <<ProtoLate>> }}

\* CollectorService::post_spans: a span without a process gets the process of
\* the batch
PostProto(c) ==
    /\ \A d \in Callers : pc[d] = "idle"
    /\ resp = NoResp
    /\ \E request \in ProtoRequests :
        IF ~request.batch.some \/ ~request.batch.v.process.some
        THEN /\ db' = db
             /\ resp' = IngestResp("proto", request, request, "rejected", << >>,
                            NoStatus)
        ELSE \E o \in CollectAll([i \in DOMAIN request.batch.v.spans |->
                    proto_span(IF request.batch.v.spans[i].process.some
                               THEN request.batch.v.spans[i]
                               ELSE [request.batch.v.spans[i] EXCEPT
                                        !.process = request.batch.v.process])]) :
            IF o.kind = "ok"
            THEN /\ SpawnSaveSpans(o.v)
                 /\ resp' = IngestResp("proto", request, request, "accepted", o.v,
                                NoStatus)
            ELSE /\ db' = db
                 /\ resp' = IngestResp("proto", request, request,
                        IF o.kind = "err" THEN "rejected" ELSE "panicked", << >>,
                        NoStatus)
    /\ pc' = [pc EXCEPT ![c] = "ok"]
    /\ UNCHANGED <<tx, lock, spans, trace_info, last_batch, client, listener, layer>>

OtlpAttr(k, ty, v) == [key |-> k, value |-> Some([ty |-> ty, v |-> v])]

OtlpSpan(tid, sid, parent, name, st, en, kind, links, attrs) ==
    [trace_id |-> tid, span_id |-> sid, parent_span_id |-> parent, name |-> name,
     start_time_unix_nano |-> st, end_time_unix_nano |-> en, kind |-> kind,
     links |-> links, attributes |-> attrs]

\* a span with its identifiers set, one with zero identifiers, one without
\* identifiers, and one that ends too late
OtlpPlain ==
    OtlpSpan(<<0, 5>>, <<9>>, <<3>>, "x", 1000, 3500, "Server", << >>,
        <<OtlpAttr("k1", "StringValue", "v"), [key |-> "n", value |-> None]>>)

OtlpZeroIds ==
    OtlpSpan(<<0, 0>>, <<0>>, <<0>>, "y", 0, 0, "Unspecified",
        <<[trace_id |-> <<0, 0>>, span_id |-> <<0>>]>>, << >>)

OtlpNoIds ==
    OtlpSpan(<< >>, << >>, <<3, 0>>, "z", 2, 2, "Unspecified", << >>, << >>)

OtlpLate == OtlpSpan(<<0, 6>>, <<1>>, << >>, "x", 1, 2100000000, "Client", << >>, << >>)

\* the resources: none, one that names its service, one with attributes that
\* name no service, one whose service name is no string, one with an empty name
OtlpResources ==
    { None,
      Some([attributes |-> <<OtlpAttr("service.name", "StringValue", "svc"),
                             OtlpAttr("host", "StringValue", "h")>>]),
      Some([attributes |-> <<OtlpAttr("host", "StringValue", "h")>>]),
      Some([attributes |-> <<OtlpAttr("service.name", "IntValue", 1)>>]),
      Some([attributes |-> <<OtlpAttr("service.name", "StringValue", "")>>]) }

\* the resource spans of the ExportTraceServiceRequests
OtlpRequests ==
    {<<[resource |-> r, spans |-> ss]>> :
        r \in OtlpResources,
        ss \in { << >>, <<OtlpPlain>>, <<OtlpZeroIds>>, <<OtlpNoIds>>,
                 <<OtlpPlain, OtlpZeroIds>>, <<OtlpLate>> }}
    \cup {<<[resource |-> None, spans |-> <<OtlpPlain>>],
            [resource |-> None, spans |-> <<OtlpLate>>]>>}

RECURSIVE Flatten(_)
Flatten(seqs) == IF seqs = << >> THEN << >> ELSE Head(seqs) \o Flatten(Tail(seqs))

\* convert_resource_spans: the spans of every resource, in order, or the first
\* error
convert_resource_spans(resource_spans) ==
    {IF o.kind # "ok" THEN o ELSE ConvOk(Flatten(o.v)) :
        o \in CollectAll([i \in DOMAIN resource_spans |->
                span_from_otlp(resource_spans[i])])}

\* the Content-Type headers of the requests, in the tokens of a media type:
\* none, the protobuf one (also with a parameter), other types and subtypes,
\* one with a structured-syntax suffix, and one that is no media type
OtlpContentTypes ==
    { None,
      Some(<<"application", "/", "x-protobuf">>),
      Some(<<"application", "/", "x-protobuf", ";", "charset=utf-8">>),
      Some(<<"application", "/", "json">>),
      Some(<<"application", "/", "protobuf">>),
      Some(<<"text", "/", "x-protobuf">>),
      Some(<<"application", "/", "x-protobuf", "+", "json">>),
      Some(<<"application">>) }

\* the bodies: the encoding of an ExportTraceServiceRequest, or bytes that
\* are none
OtlpBodies ==
    {[kind |-> "message", resource_spans |-> r] : r \in OtlpRequests}
    \cup {[kind |-> "undecodable"]}

OtlpHttpRequests == [content_type : OtlpContentTypes, body : OtlpBodies]

MimeSeparators == {"/", "+", ";"}

\* <Mime as FromStr>::from_str: type "/" subtype, then a "+" suffix and
\* ";" parameters when there are any; subtype is what Mime::subtype gives,
\* the part that ends at the "+"
mime_parse(tokens) ==
    IF \/ Len(tokens) < 3
       \/ tokens[2] # "/"
       \/ tokens[1] \in MimeSeparators
       \/ tokens[3] \in MimeSeparators
    THEN None
    ELSE LET plus == Len(tokens) >= 5 /\ tokens[4] = "+"
                        /\ tokens[5] \notin MimeSeparators
             rest == SubSeq(tokens, IF plus THEN 6 ELSE 4, Len(tokens))
         IN  IF rest # << >> /\ (Len(rest) # 2 \/ rest[1] # ";"
                                    \/ rest[2] \in MimeSeparators)
             THEN None
             ELSE Some([type |-> tokens[1], subtype |-> tokens[3],
                        suffix |-> IF plus THEN Some(tokens[5]) ELSE None])

\* protobuf_content_type
protobuf_content_type(req) ==
    IF ~req.content_type.some THEN FALSE
    ELSE LET ct == mime_parse(req.content_type.v)
         IN  IF ~ct.some THEN FALSE
             ELSE ct.v.type = "application" /\ ct.v.subtype = "x-protobuf"

\* Protobuf::from_request: the content type, then the body and its decoding
protobuf_from_request(req) ==
    IF ~protobuf_content_type(req)
    THEN [kind |-> "err", rejection |-> "MissingContentType"]
    ELSE IF req.body.kind = "undecodable"
    THEN [kind |-> "err", rejection |-> "Decode"]
    ELSE ConvOk(req.body.resource_spans)

\* ProtobufRejection::into_response
protobuf_rejection_into_response(rejection) ==
    CASE rejection = "MissingContentType" -> StatusUnsupportedMediaType
      [] rejection = "Decode" -> StatusBadRequest

\* Protobuf::into_response: the headers and the encoded message, under the
\* status of a response that names none
protobuf_into_response == StatusOk

\* otel::collector::traces: POST /v1/traces, the Protobuf extractor first
PostOtlp(c) ==
    /\ \A d \in Callers : pc[d] = "idle"
    /\ resp = NoResp
    /\ \E http \in OtlpHttpRequests :
        \E extracted \in {protobuf_from_request(http)} :
            IF extracted.kind # "ok"
            THEN /\ db' = db
                 /\ resp' = IngestResp("otlp", http, http.body, "rejected", << >>,
                        protobuf_rejection_into_response(extracted.rejection))
            ELSE \E o \in convert_resource_spans(extracted.v) :
                IF o.kind = "ok"
                THEN /\ SpawnSaveSpans(o.v)
                     /\ resp' = IngestResp("otlp", http, extracted.v, "accepted",
                            o.v, protobuf_into_response)
                ELSE /\ db' = db
                     /\ resp' = IngestResp("otlp", http, extracted.v, "rejected",
                            << >>, StatusBadRequest)
    /\ pc' = [pc EXCEPT ![c] = "ok"]
    /\ UNCHANGED <<tx, lock, spans, trace_info, last_batch, client, listener, layer>>

NextIngest ==
    \/ \E c \in Callers : PostThrift(c)
    \/ \E c \in Callers : PostProto(c)
    \/ \E c \in Callers : PostOtlp(c)
    \/ Return

SpecIngest == Init /\ [][NextIngest]_vars

(***************************************************************************)
(* The Quiver wire format: the span the client library serializes with     *)
(* postcard and the one the collector deserializes.  The fields of a span  *)
(* before `tags` (trace_id to thread) have the same types in the same      *)
(* order in both crates and are carried as the record `head`; the bytes    *)
(* of tags, logs and process are spelled out.                              *)
(***************************************************************************)
\* tracing_archer::models::TagValue: the variants in declaration order
ClientTagValue == <<"F64", "I64", "U64", "I128", "U128", "Bool", "String">>

\* quiver::models::TagValue: the variants in declaration order
CollectorTagValue == <<"String", "Bool", "I64", "F64", "Binary">>

\* quiver::models::LogLevel and tracing_archer::models::LogLevel
LogLevel == <<"Trace", "Debug", "Info", "Warn", "Error">>

\* the index serde hands to postcard for a variant
VariantIndex(variants, ty) == (CHOOSE i \in DOMAIN variants : variants[i] = ty) - 1

VarintRadix == 128

\* postcard's varint of an unsigned integer: seven bits a byte, low bits first
RECURSIVE varint(_)
varint(n) ==
    IF n < VarintRadix THEN <<n>>
    ELSE <<VarintRadix + (n % VarintRadix)>> \o varint(n \div VarintRadix)

\* postcard's zigzag of a signed integer, and its inverse
zigzag(i) == IF i >= 0 THEN 2 * i ELSE 0 - 2 * i - 1

unzigzag(u) == IF u % 2 = 0 THEN u \div 2 ELSE 0 - ((u + 1) \div 2)

\* str::as_bytes of the strings the client sends
AsBytes ==
    [s \in {"", "a", "k", "v", "1", "m"} |->
        CASE s = "" -> << >> [] s = "a" -> <<97>> [] s = "k" -> <<107>>
          [] s = "v" -> <<118>> [] s = "1" -> <<49>> [] s = "m" -> <<109>>]

\* String::from_utf8 of bytes below 128: the text, a byte the client never
\* sends written as its escape
RECURSIVE from_utf8(_)
from_utf8(bytes) ==
    IF bytes = << >> THEN ""
    ELSE (IF \E s \in DOMAIN AsBytes : AsBytes[s] = <<Head(bytes)>>
          THEN CHOOSE s \in DOMAIN AsBytes : AsBytes[s] = <<Head(bytes)>>
          ELSE "\\" \o ToString(Head(bytes))) \o from_utf8(Tail(bytes))

\* f64::to_le_bytes of the floats of the model, held in tenths: 1.5 and 2.0
F64Bytes ==
    [f \in {15, 20} |->
        IF f = 15 THEN <<0, 0, 0, 0, 0, 0, 248, 63>> ELSE <<0, 0, 0, 0, 0, 0, 0, 64>>]

F64Len == 8

\* f64::from_le_bytes: the float in tenths, any other float as its bits
f64_from_le_bytes(bytes) ==
    IF \E f \in DOMAIN F64Bytes : F64Bytes[f] = bytes
    THEN CHOOSE f \in DOMAIN F64Bytes : F64Bytes[f] = bytes
    ELSE [bits |-> bytes]

\* the concatenation of the sequences of a sequence
RECURSIVE Concat(_)
Concat(seqs) == IF seqs = << >> THEN << >> ELSE Head(seqs) \o Concat(Tail(seqs))

ser_str(s) == varint(Len(AsBytes[s])) \o AsBytes[s]

\* Serialize for tracing_archer::models::TagValue: the index, then the value
ser_tag_value(value) ==
    varint(VariantIndex(ClientTagValue, value.ty)) \o
        CASE value.ty = "F64" -> F64Bytes[value.v]
          [] value.ty \in {"I64", "I128"} -> varint(zigzag(value.v))
          [] value.ty \in {"U64", "U128"} -> varint(value.v)
          [] value.ty = "Bool" -> <<IF value.v THEN 1 ELSE 0>>
          [] value.ty = "String" -> ser_str(value.v)

ser_tag(tag) == ser_str(tag.key) \o ser_tag_value(tag.value)

ser_tags(tags) ==
    varint(Len(tags)) \o Concat([i \in DOMAIN tags |-> ser_tag(tags[i])])

\* Serialize for Option<Location>
ser_location(location) ==
    IF location = << >> THEN <<0>>
    ELSE <<1>> \o ser_str(location[1].filepath) \o ser_str(location[1].namespace)
            \o varint(location[1].lineno)

\* Serialize for time::OffsetDateTime in a compact format: year, ordinal,
\* hour, minute, second, nanosecond and the three parts of the offset
ser_datetime(t) ==
    varint(zigzag(t.year)) \o varint(t.ordinal) \o <<t.hour, t.minute, t.second>>
        \o varint(t.nanosecond)
        \o [i \in DOMAIN t.offset |-> t.offset[i] % ByteRadix]

ser_log(log) ==
    ser_datetime(log.timestamp) \o varint(VariantIndex(LogLevel, log.level))
        \o ser_str(log.target) \o ser_location(log.location) \o ser_tags(log.fields)

ser_logs(logs) ==
    varint(Len(logs)) \o Concat([i \in DOMAIN logs |-> ser_log(logs[i])])

ser_process(process) ==
    ser_str(process.service) \o ser_str(process.version) \o ser_tags(process.tags)

\* postcard::to_stdvec of a span of the client
to_stdvec(span) ==
    [head |-> span.head,
     body |-> ser_tags(span.tags) \o ser_logs(span.logs) \o ser_process(span.process)]

\* the results of a step of the deserializer: a value and the bytes left
Parsed(v, rest) == [ok |-> TRUE, v |-> v, rest |-> rest]

ParseFail == [ok |-> FALSE]

Drop(buf, n) == SubSeq(buf, n + 1, Len(buf))

\* the next step of the deserializer on the result of a step that succeeded
AndThen(r, Next_(_)) ==
    CHOOSE out \in {IF x.ok THEN Next_(x) ELSE ParseFail : x \in {r}} : TRUE

\* postcard's try_take_varint
RECURSIVE take_varint(_)
take_varint(buf) ==
    IF buf = << >> THEN ParseFail
    ELSE IF Head(buf) < VarintRadix THEN Parsed(Head(buf), Tail(buf))
    ELSE AndThen(take_varint(Tail(buf)), LAMBDA r :
            Parsed(Head(buf) - VarintRadix + VarintRadix * r.v, r.rest))

de_u8(buf) == IF buf = << >> THEN ParseFail ELSE Parsed(Head(buf), Tail(buf))

\* an i8 is the byte's two's complement
de_i8(buf) ==
    IF buf = << >> THEN ParseFail
    ELSE Parsed(IF Head(buf) < ByteRadix \div 2 THEN Head(buf)
                ELSE Head(buf) - ByteRadix, Tail(buf))

de_signed(buf) ==
    AndThen(take_varint(buf), LAMBDA r : Parsed(unzigzag(r.v), r.rest))

de_bool(buf) ==
    IF buf = << >> \/ Head(buf) > 1 THEN ParseFail
    ELSE Parsed(Head(buf) = 1, Tail(buf))

de_f64(buf) ==
    IF Len(buf) < F64Len THEN ParseFail
    ELSE Parsed(f64_from_le_bytes(SubSeq(buf, 1, F64Len)), Drop(buf, F64Len))

\* a byte buffer: the length, then the bytes
de_bytes(buf) ==
    AndThen(take_varint(buf), LAMBDA r :
        IF r.v > Len(r.rest) THEN ParseFail
        ELSE Parsed(SubSeq(r.rest, 1, r.v), Drop(r.rest, r.v)))

\* a String: a byte buffer that is UTF-8 (every byte of the model that is
\* 128 or more is one that cannot start a character)
de_str(buf) ==
    AndThen(de_bytes(buf), LAMBDA r :
        IF \E i \in DOMAIN r.v : r.v[i] >= VarintRadix THEN ParseFail
        ELSE Parsed(from_utf8(r.v), r.rest))

\* the value of the variant ty of quiver::models::TagValue
de_variant(ty, buf) ==
    CASE ty = "String" -> de_str(buf)
      [] ty = "Bool" -> de_bool(buf)
      [] ty = "I64" -> de_signed(buf)
      [] ty = "F64" -> de_f64(buf)
      [] ty = "Binary" -> de_bytes(buf)

\* Deserialize for quiver::models::TagValue: the index picks the variant
de_tag_value(buf) ==
    AndThen(take_varint(buf), LAMBDA idx :
        IF idx.v >= Len(CollectorTagValue) THEN ParseFail
        ELSE AndThen(de_variant(CollectorTagValue[idx.v + 1], idx.rest), LAMBDA r :
                Parsed([ty |-> CollectorTagValue[idx.v + 1], v |-> r.v], r.rest)))

de_tag(buf) ==
    AndThen(de_str(buf), LAMBDA k :
    AndThen(de_tag_value(k.rest), LAMBDA v :
        Parsed([key |-> k.v, value |-> v.v], v.rest)))

\* the n elements of a Vec<Tag>
RECURSIVE de_tag_seq(_, _)
de_tag_seq(n, buf) ==
    IF n = 0 THEN Parsed(<< >>, buf)
    ELSE AndThen(de_tag(buf), LAMBDA h :
         AndThen(de_tag_seq(n - 1, h.rest), LAMBDA t :
            Parsed(<<h.v>> \o t.v, t.rest)))

de_tags(buf) ==
    AndThen(take_varint(buf), LAMBDA n : de_tag_seq(n.v, n.rest))

de_location(buf) ==
    AndThen(de_u8(buf), LAMBDA some :
        IF some.v > 1 THEN ParseFail
        ELSE IF some.v = 0 THEN Parsed(<< >>, some.rest)
        ELSE AndThen(de_str(some.rest), LAMBDA f :
             AndThen(de_str(f.rest), LAMBDA n :
             AndThen(take_varint(n.rest), LAMBDA l :
                Parsed(<<[filepath |-> f.v, namespace |-> n.v, lineno |-> l.v]>>,
                       l.rest)))))

MaxYear == 9999

DaysInYear(year) ==
    IF year % 4 = 0 /\ (year % 100 # 0 \/ year % 400 = 0) THEN 366 ELSE 365

HoursPerDay == 24

SixtiethsPerUnit == 60

MaxOffsetHours == 25

\* the parts of a date and time are each in their range
valid_datetime(t) ==
    /\ t.year >= 0 - MaxYear /\ t.year <= MaxYear
    /\ t.ordinal >= 1 /\ t.ordinal <= DaysInYear(t.year)
    /\ t.hour < HoursPerDay /\ t.minute < SixtiethsPerUnit
    /\ t.second < SixtiethsPerUnit /\ t.nanosecond < NanosPerSecond
    /\ t.offset[1] >= 0 - MaxOffsetHours /\ t.offset[1] <= MaxOffsetHours
    /\ t.offset[2] > 0 - SixtiethsPerUnit /\ t.offset[2] < SixtiethsPerUnit
    /\ t.offset[3] > 0 - SixtiethsPerUnit /\ t.offset[3] < SixtiethsPerUnit

\* Deserialize for time::OffsetDateTime: the nine parts, each in its range
de_datetime(buf) ==
    AndThen(de_signed(buf), LAMBDA y :
    AndThen(take_varint(y.rest), LAMBDA o :
    AndThen(de_u8(o.rest), LAMBDA h :
    AndThen(de_u8(h.rest), LAMBDA mi :
    AndThen(de_u8(mi.rest), LAMBDA s :
    AndThen(take_varint(s.rest), LAMBDA n :
    AndThen(de_i8(n.rest), LAMBDA oh :
    AndThen(de_i8(oh.rest), LAMBDA om :
    AndThen(de_i8(om.rest), LAMBDA os :
        AndThen(Parsed([year |-> y.v, ordinal |-> o.v, hour |-> h.v,
                        minute |-> mi.v, second |-> s.v, nanosecond |-> n.v,
                        offset |-> <<oh.v, om.v, os.v>>], os.rest), LAMBDA t :
            IF valid_datetime(t.v) THEN t ELSE ParseFail))))))))))

de_log(buf) ==
    AndThen(de_datetime(buf), LAMBDA t :
    AndThen(take_varint(t.rest), LAMBDA lv :
        IF lv.v >= Len(LogLevel) THEN ParseFail
        ELSE AndThen(de_str(lv.rest), LAMBDA tg :
             AndThen(de_location(tg.rest), LAMBDA lo :
             AndThen(de_tags(lo.rest), LAMBDA f :
                Parsed([timestamp |-> t.v, level |-> LogLevel[lv.v + 1],
                        target |-> tg.v, location |-> lo.v, fields |-> f.v],
                       f.rest))))))

RECURSIVE de_log_seq(_, _)
de_log_seq(n, buf) ==
    IF n = 0 THEN Parsed(<< >>, buf)
    ELSE AndThen(de_log(buf), LAMBDA h :
         AndThen(de_log_seq(n - 1, h.rest), LAMBDA t :
            Parsed(<<h.v>> \o t.v, t.rest)))

de_logs(buf) ==
    AndThen(take_varint(buf), LAMBDA n : de_log_seq(n.v, n.rest))

de_process(buf) ==
    AndThen(de_str(buf), LAMBDA s :
    AndThen(de_str(s.rest), LAMBDA v :
    AndThen(de_tags(v.rest), LAMBDA t :
        Parsed([service |-> s.v, version |-> v.v, tags |-> t.v], t.rest))))

\* the three last fields of quiver::models::Span
de_body(buf) ==
    AndThen(de_tags(buf), LAMBDA t :
    AndThen(de_logs(t.rest), LAMBDA l :
    AndThen(de_process(l.rest), LAMBDA p :
        Parsed([tags |-> t.v, logs |-> l.v, process |-> p.v], p.rest))))

\* postcard::from_bytes::<quiver::models::Span>: the bytes that are left
\* after the last field are ignored
postcard_from_bytes(raw) ==
    CHOOSE out \in
        {IF b.ok
         THEN ConvOk([head |-> raw.head, tags |-> b.v.tags, logs |-> b.v.logs,
                      process |-> b.v.process])
         ELSE ConvErr : b \in {de_body(raw.body)}} : TRUE

(***************************************************************************)
(* convert::quiver: the collector's Quiver span to the canonical model.    *)
(***************************************************************************)
\* quiver::tag
quiver_tag(tag) ==
    CASE tag.value.ty = "String" -> Tag(tag.key, "String", tag.value.v)
      [] tag.value.ty = "Bool" -> Tag(tag.key, "Bool", tag.value.v)
      [] tag.value.ty = "I64" -> Tag(tag.key, "I64", tag.value.v)
      [] tag.value.ty = "F64" -> Tag(tag.key, "F64", tag.value.v)
      [] tag.value.ty = "Binary" -> Tag(tag.key, "Binary", tag.value.v)

quiver_tags(tags) == [i \in DOMAIN tags |-> quiver_tag(tags[i])]

\* quiver::timing
quiver_timing(timing) ==
    <<Tag("busy_ns", "I128", timing.busy), Tag("idle_ns", "I128", timing.idle)>>

\* quiver::location
quiver_location(location) ==
    IF location = << >> THEN << >>
    ELSE <<Tag("code.filepath", "String", location[1].filepath),
           Tag("code.namespace", "String", location[1].namespace),
           Tag("code.fileno", "I64", location[1].lineno)>>

\* quiver::thread
quiver_thread(thread) ==
    IF thread = << >> THEN << >>
    ELSE <<Tag("thread.id", "U64", thread[1].id),
           Tag("thread.name", "String", thread[1].name)>>

\* quiver::log
quiver_log(log) ==
    [timestamp |-> log.timestamp,
     fields |-> <<Tag("level", "String",
                        CASE log.level = "Trace" -> "TRACE"
                          [] log.level = "Debug" -> "DEBUG"
                          [] log.level = "Info" -> "INFO"
                          [] log.level = "Warn" -> "WARN"
                          [] log.level = "Error" -> "ERROR"),
                  Tag("target", "String", log.target)>>
                \o quiver_location(log.location) \o quiver_tags(log.fields)]

\* quiver::process
quiver_process(process) ==
    [service |-> process.service,
     tags |-> <<Tag("service.version", "String", process.version)>>
                \o quiver_tags(process.tags)]

\* quiver::span
span_from_quiver(span) ==
    MkFullSpan(span.head.trace_id, span.head.span_id, span.head.operation_name,
               span.head.flags, span.head.references, span.head.start,
               span.head.duration,
               quiver_timing(span.head.timing) \o quiver_location(span.head.location)
                    \o quiver_thread(span.head.thread) \o quiver_tags(span.tags),
               [i \in DOMAIN span.logs |-> quiver_log(span.logs[i])],
               quiver_process(span.process))

(***************************************************************************)
(* The Quiver listener's handle_request, fed by the send task of the       *)
(* client.  A stream is the Snappy frame the client wrote: `len` counts    *)
(* the bytes on the stream and `uncompressed_len` those of the postcard    *)
(* message in it (of the whole message, whose head the model does not      *)
(* spell out byte by byte).                                                *)
(***************************************************************************)
\* the most bytes read_to_end takes from a stream
ReadLimit == 64 * 1024

\* the head of a span of the client
QuiverHead(t, s, op, location, thread) ==
    [trace_id |-> t, span_id |-> s, operation_name |-> op, flags |-> 1,
     references |-> << >>, start |-> 1000, duration |-> 500,
     timing |-> [busy |-> 300, idle |-> 200], location |-> location,
     thread |-> thread]

QuiverProcess == [service |-> "a", version |-> "1", tags |-> << >>]

\* a span of the client with the given tags and no logs
QuiverSpan(tags) ==
    [head |-> QuiverHead(5, 1, "x", << >>, << >>), tags |-> tags, logs |-> << >>,
     process |-> QuiverProcess]

\* a span with a location, a thread, a log and a process tag
QuiverLogged ==
    [head |-> QuiverHead(6, 2, "y",
                <<[filepath |-> "m", namespace |-> "a", lineno |-> 7]>>,
                <<[id |-> 3, name |-> "m"]>>),
     tags |-> << >>,
     logs |-> <<[timestamp |-> [year |-> 2024, ordinal |-> 60, hour |-> 23,
                                minute |-> 59, second |-> 58, nanosecond |-> 300,
                                offset |-> <<0, 0, 0>>],
                 level |-> "Warn", target |-> "m", location |-> << >>,
                 fields |-> << >>]>>,
     process |-> [service |-> "a", version |-> "1", tags |-> << >>]]

\* the tag values the client emits, every variant of its TagValue
QuiverTagValues ==
    {[ty |-> "F64", v |-> 15], [ty |-> "F64", v |-> 20],
     [ty |-> "I64", v |-> 0 - 1], [ty |-> "I64", v |-> 3],
     [ty |-> "U64", v |-> 4], [ty |-> "I128", v |-> 0 - 2],
     [ty |-> "U128", v |-> 0], [ty |-> "U128", v |-> 2], [ty |-> "U128", v |-> 300],
     [ty |-> "Bool", v |-> TRUE], [ty |-> "String", v |-> "v"]}

QuiverSpans ==
    {QuiverSpan(<< >>), QuiverLogged}
        \cup {QuiverSpan(<<[key |-> "k", value |-> v]>>) : v \in QuiverTagValues}
        \cup {QuiverSpan(<<[key |-> "k", value |-> v], [key |-> "m", value |-> v]>>) :
                v \in QuiverTagValues}

\* the sizes of a stream: the bytes sent and the bytes of the message in them
StreamSizes ==
    {<<100, 200>>, <<ReadLimit, ReadLimit>>, <<4000, ReadLimit + 1>>,
     <<ReadLimit + 1, 2 * ReadLimit>>}

\* snap::raw::Encoder::compress_vec of a message that takes uncompressed_len
\* bytes and compresses to len bytes
compress_vec(data, len, uncompressed_len) ==
    [len |-> len, stalled |-> FALSE,
     frame |-> [valid |-> TRUE, uncompressed_len |-> uncompressed_len, data |-> data]]

\* snap::raw::Decoder::decompress_vec: the message of a frame that is valid
decompress_vec(req) == IF req.valid THEN ConvOk(req.data) ELSE ConvErr

\* the requests of a connection, each the span a client sent and the stream
\* of its send task; one stream stalls before its end and one does not hold a
\* Snappy frame
QuiverRequests ==
    {[span |-> span, stream |-> compress_vec(to_stdvec(span), size[1], size[2])] :
        span \in QuiverSpans, size \in StreamSizes}
    \cup {[span |-> QuiverLogged,
           stream |-> [compress_vec(to_stdvec(QuiverLogged), 100, 200)
                            EXCEPT !.stalled = TRUE]],
          [span |-> QuiverLogged,
           stream |-> [compress_vec(to_stdvec(QuiverLogged), 100, 200)
                            EXCEPT !.frame.valid = FALSE]]}

\* handle_request up to the conversion: read the stream to its end, at most
\* 64 KiB and within the timeout, decompress, deserialize and convert
handle_request(recv) ==
    IF recv.stalled \/ recv.len > ReadLimit THEN ConvErr
    ELSE CHOOSE out \in
            {IF raw.kind # "ok" THEN ConvErr
             ELSE CHOOSE res \in
                    {IF span.kind = "ok"
                     THEN [kind |-> "ok", v |-> span_from_quiver(span.v),
                           decoded |-> span.v]
                     ELSE ConvErr : span \in {postcard_from_bytes(raw.v)}} : TRUE :
                raw \in {decompress_vec(recv.frame)}} : TRUE

\* the response of the listener: that of an ingest handler, with the span
\* postcard returned
QuiverResp(request, outcome, saved, decoded) ==
    [op |-> "quiver", request |-> request, outcome |-> outcome, saved |-> saved,
     decoded |-> decoded]

\* handle_request on one stream, with the task it spawns for save_spans
HandleRequest(c) ==
    /\ \A d \in Callers : pc[d] = "idle"
    /\ resp = NoResp
    /\ \E request \in QuiverRequests :
        \E o \in {handle_request(request.stream)} :
            IF o.kind = "ok"
            THEN /\ SpawnSaveSpans(<<o.v>>)
                 /\ resp' = QuiverResp(request, "accepted", <<o.v>>, <<o.decoded>>)
            ELSE /\ db' = db
                 /\ resp' = QuiverResp(request, "rejected", << >>, << >>)
    /\ pc' = [pc EXCEPT ![c] = "ok"]
    /\ UNCHANGED <<tx, lock, spans, trace_info, last_batch, client, listener, layer>>

NextQuiver ==
    \/ \E c \in Callers : HandleRequest(c)
    \/ Return

SpecQuiver == Init /\ [][NextQuiver]_vars

(***************************************************************************)
(* The steps of the Quiver client.                                         *)
(***************************************************************************)
QuicUnchanged ==
    UNCHANGED <<db, tx, lock, pc, spans, trace_info, last_batch, resp, listener, layer>>

\* Sender::send without a bound on the channel
has_capacity_unbounded(cl) == TRUE

\* Sender::send waits while the channel of mpsc::channel(16) is full
has_capacity(cl) == Len(cl.receiver) < ChannelCapacity

\* send_span that reports the closed channel to the caller
send_span_closed_is_err(cl, k) ==
    IF cl.actor = "closed"
    THEN [cl EXCEPT !.called[k] = TRUE, !.result[k] = "send error"]
    ELSE [cl EXCEPT !.called[k] = TRUE, !.receiver = Append(@, SendSpanMsg(k))]

\* the body of Handle::send_span up to the wait for the reply
send_span(cl, k) ==
    IF cl.actor = "closed"
    THEN [cl EXCEPT !.called[k] = TRUE, !.result[k] = "ok"]
    ELSE [cl EXCEPT !.called[k] = TRUE, !.receiver = Append(@, SendSpanMsg(k))]

\* Handle::send_span: the message goes into the channel; once the receiver is
\* gone the span is dropped and the caller gets Ok
SendSpan(k) ==
    /\ ~client.called[k]
    /\ has_capacity(client)
    /\ client' = send_span(client, k)
    /\ QuicUnchanged

\* Handle::shutdown: consumes the handle
Shutdown(max_wait) ==
    /\ ~client.shutdown_called
    /\ Len(client.receiver) < ChannelCapacity
    /\ client' = [client EXCEPT !.shutdown_called = TRUE,
                                !.receiver = Append(@, ShutdownMsg(max_wait))]
    /\ QuicUnchanged

\* the send task the actor spawns for span k on the connection it holds
spawn_send_task(cl, k) ==
    [cl EXCEPT !.task[k] = "running", !.task_conn[k] = cl.conn,
               !.tasks = Append(@, k), !.actor = "recv"]

\* drive_connection takes a message; handle_message of a SendSpan loads the
\* flag and, when it is set, spawns the send task, else starts to connect;
\* of a Shutdown, notes the instant and awaits the background task
ActorRecv ==
    /\ client.actor = "recv"
    /\ client.receiver # << >>
    /\ LET msg == Head(client.receiver)
           cl == [client EXCEPT !.receiver = Tail(@), !.msg = msg]
           seen == [cl EXCEPT !.loaded[msg.id] = client.connected,
                              !.failure_seen[msg.id] = client.failed_since_connect]
       IN  client' =
            IF msg.kind = "SendSpan"
            THEN IF client.connected
                 THEN spawn_send_task(seen, msg.id)
                 ELSE [seen EXCEPT !.actor = "connect"]
            ELSE [cl EXCEPT !.actor = "drain", !.start = client.now,
                            !.max_wait = msg.max_wait]
    /\ QuicUnchanged

\* the reconnect succeeded: the new connection is kept, the flag set and the
\* send task spawned
ConnectOk ==
    /\ client.actor = "connect"
    /\ client' = spawn_send_task(
            [client EXCEPT !.conn = @ + 1, !.connected = TRUE,
                           !.reconnected[client.msg.id] = TRUE,
                           !.failed_since_connect = FALSE], client.msg.id)
    /\ QuicUnchanged

\* the reconnect failed: the caller gets the error, the actor goes on
ConnectFail ==
    /\ client.actor = "connect"
    /\ client' = [client EXCEPT !.result[client.msg.id] = "connect error",
                                !.actor = "recv"]
    /\ QuicUnchanged

\* a send task that leaves the flag as it is when its stream failed
connected_after_send_kept(connected, sent_ok) == connected

\* the flag after the stream of a send task was opened, written and finished
connected_after_send(connected, sent_ok) == IF sent_ok THEN connected ELSE FALSE

\* the send task of span k: serialize, compress, open a stream, write and
\* finish; an error clears the flag, and the result goes to the caller
SendTask(k) ==
    /\ client.task[k] = "running"
    /\ \E sent_ok \in BOOLEAN :
        client' = [client EXCEPT
            !.task[k] = "done",
            !.done_at[k] = client.now,
            !.connected = connected_after_send(@, sent_ok),
            !.failed_since_connect = IF sent_ok THEN @ ELSE TRUE,
            !.result[k] = IF sent_ok THEN "ok" ELSE "send error"]
    /\ QuicUnchanged

\* the background task of Connection::new takes the next JoinHandle
BackgroundRecv ==
    /\ client.handle.pc = "recv"
    /\ client.tasks # << >>
    /\ client' = [client EXCEPT !.handle = [pc |-> "join", join |-> Head(client.tasks)],
                                !.tasks = Tail(@)]
    /\ QuicUnchanged

\* the send task it awaits has ended
BackgroundJoin ==
    /\ client.handle.pc = "join"
    /\ client.task[client.handle.join] = "done"
    /\ client' = [client EXCEPT !.handle = [pc |-> "recv", join |-> 0]]
    /\ QuicUnchanged

\* recv returns None once the channel is empty and its sender dropped: the
\* background task ends
BackgroundEnd ==
    /\ client.handle.pc = "recv"
    /\ client.tasks = << >>
    /\ ~client.sender_alive
    /\ client' = [client EXCEPT !.handle = [pc |-> "finished", join |-> 0]]
    /\ QuicUnchanged

\* time::timeout(max_wait, handle) is over: the background task has ended or
\* max_wait has elapsed
drain_over(cl) ==
    cl.handle.pc = "finished" \/ cl.now >= cl.start + cl.max_wait

\* the results of the callers after the receiver was dropped: a caller whose
\* message was still in the channel finds its reply channel closed
dropped_results(cl) ==
    [k \in SendIds |->
        IF \E i \in DOMAIN cl.receiver : cl.receiver[i] = SendSpanMsg(k)
        THEN "panic" ELSE cl.result[k]]

\* the thread that drops the layer after the actor replied to a Shutdown and
\* dropped the receiver: it got the reply to its own message; when its
\* message was still in the channel, it finds its reply channel closed
dropped_layer(cl) ==
    IF cl.msg = BlockingShutdownMsg THEN "returned"
    ELSE IF \E i \in DOMAIN cl.receiver : cl.receiver[i] = BlockingShutdownMsg
    THEN "panic" ELSE cl.drop

\* handle_message of the Shutdown after the wait: close the connection, reply,
\* and drive_connection returns, which drops the connection with its sender
ShutdownDone ==
    /\ client.actor = "drain"
    /\ drain_over(client)
    /\ client' = [client EXCEPT !.actor = "closed",
                                !.returned_at =
                                    IF client.msg = BlockingShutdownMsg THEN @
                                    ELSE client.now,
                                !.sender_alive = FALSE,
                                !.result = dropped_results(client),
                                !.drop = dropped_layer(client),
                                !.receiver = << >>]
    /\ QuicUnchanged

\* blocking_send: the message goes into the channel and the thread waits for
\* the reply; once the receiver is gone the message is dropped with its
\* reply channel, and the expect on blocking_recv panics
blocking_send(cl) ==
    IF cl.actor = "closed"
    THEN [cl EXCEPT !.drop = "panic"]
    ELSE [cl EXCEPT !.drop = "waiting",
                    !.receiver = Append(@, BlockingShutdownMsg)]

\* Drop for QuiverLayer: Handle::shutdown_blocking on the layer's clone of
\* the handle
ShutdownBlocking ==
    /\ client.drop = "none"
    /\ Len(client.receiver) < ChannelCapacity
    /\ client' = blocking_send(client)
    /\ QuicUnchanged

\* a tick of the clock; the timeout of a shutdown fires when it is due
Tick ==
    /\ client.now < MaxClock
    /\ ~(client.actor = "drain" /\ drain_over(client))
    /\ client' = [client EXCEPT !.now = @ + 1]
    /\ QuicUnchanged

NextClient ==
    \/ \E k \in SendIds : SendSpan(k)
    \/ \E w \in 1..MaxWait : Shutdown(w)
    \/ ActorRecv
    \/ ConnectOk
    \/ ConnectFail
    \/ \E k \in SendIds : SendTask(k)
    \/ BackgroundRecv
    \/ BackgroundJoin
    \/ BackgroundEnd
    \/ ShutdownDone
    \/ Tick

SpecClient == Init /\ [][NextClient]_vars

(***************************************************************************)
(* The channel of the handle under more producers than it has room for:    *)
(* the tasks on_close spawns, numbered in the order of their calls, and    *)
(* the loop of the actor. The send tasks are left running.                 *)
(***************************************************************************)
MaxProducers == 17

ProducerIds == 1..MaxProducers

ChannelInit ==
    /\ db = EmptyDb
    /\ tx = EmptyDb
    /\ lock = 0
    /\ pc = [c \in Callers |-> "idle"]
    /\ spans = [c \in Callers |-> << >>]
    /\ trace_info = [c \in Callers |-> << >>]
    /\ last_batch = << >>
    /\ resp = NoResp
    /\ client = ClientFor(ProducerIds)
    /\ listener = ListenerInit
    /\ layer = LayerInit

\* send_span of the next producer
ProducerSendSpan(k) ==
    /\ \A j \in 1..(k - 1) : client.called[j]
    /\ SendSpan(k)

NextChannel ==
    \/ \E k \in ProducerIds : ProducerSendSpan(k)
    \/ ActorRecv
    \/ ConnectOk
    \/ ConnectFail

SpecChannel == ChannelInit /\ [][NextChannel]_vars

(***************************************************************************)
(* The connected flag under send tasks that outlive their connection: the  *)
(* producers, the actor with its reconnect and the send tasks, without a   *)
(* shutdown.                                                               *)
(***************************************************************************)
MaxInFlight == 3

InFlightIds == 1..MaxInFlight

ReconnectInit ==
    /\ db = EmptyDb
    /\ tx = EmptyDb
    /\ lock = 0
    /\ pc = [c \in Callers |-> "idle"]
    /\ spans = [c \in Callers |-> << >>]
    /\ trace_info = [c \in Callers |-> << >>]
    /\ last_batch = << >>
    /\ resp = NoResp
    /\ client = ClientFor(InFlightIds)
    /\ listener = ListenerInit
    /\ layer = LayerInit

NextReconnect ==
    \/ \E k \in InFlightIds : ProducerSendSpan(k)
    \/ ActorRecv
    \/ ConnectOk
    \/ ConnectFail
    \/ \E k \in InFlightIds : SendTask(k)

SpecReconnect == ReconnectInit /\ [][NextReconnect]_vars

\* the client with the layer that holds a clone of its handle
NextDrop ==
    \/ \E k \in SendIds : SendSpan(k)
    \/ \E w \in 1..MaxWait : Shutdown(w)
    \/ ShutdownBlocking
    \/ ActorRecv
    \/ ConnectOk
    \/ ConnectFail
    \/ \E k \in SendIds : SendTask(k)
    \/ BackgroundRecv
    \/ BackgroundJoin
    \/ BackgroundEnd
    \/ ShutdownDone
    \/ Tick

SpecDrop == Init /\ [][NextDrop]_vars

(***************************************************************************)
(* The steps of the Quiver listener.                                       *)
(***************************************************************************)
ListenerUnchanged ==
    UNCHANGED <<tx, lock, pc, spans, trace_info, last_batch, resp, client, layer>>

\* the graceful-shutdown signal
Signal ==
    /\ ~listener.shutdown
    /\ listener' = [listener EXCEPT !.shutdown = TRUE]
    /\ db' = db
    /\ ListenerUnchanged

\* run: endpoint.accept() wins the select and a task is spawned for the
\* connection
Accept(c) ==
    /\ listener.run = "accept"
    /\ listener.conn[c] = "none"
    /\ listener' = [listener EXCEPT !.conn[c] = "open"]
    /\ db' = db
    /\ ListenerUnchanged

\* run: the signal wins the select and the loop is left
RunBreak ==
    /\ listener.run = "accept"
    /\ listener.shutdown
    /\ listener' = [listener EXCEPT !.run = "join"]
    /\ db' = db
    /\ ListenerUnchanged

\* handle_connection: accept_uni wins the select and a task is spawned for
\* the stream
AcceptUni(c, s) ==
    /\ listener.conn[c] = "open"
    /\ listener.request[s] = "none"
    /\ listener' = [listener EXCEPT !.request[s] = "running",
                                    !.request_conn[s] = c,
                                    !.before_signal[s] = ~listener.shutdown]
    /\ db' = db
    /\ ListenerUnchanged

\* handle_connection: the signal wins the select and the loop is left
ConnBreak(c) ==
    /\ listener.conn[c] = "open"
    /\ listener.shutdown
    /\ listener' = [listener EXCEPT !.conn[c] = "join"]
    /\ db' = db
    /\ ListenerUnchanged

\* handle_connection: accept_uni returns an error (the peer closed the
\* connection, it timed out, or another error) and the function returns
ConnClosed(c) ==
    /\ listener.conn[c] = "open"
    /\ listener' = [listener EXCEPT !.conn[c] = "done"]
    /\ db' = db
    /\ ListenerUnchanged

\* handle_connection after the loop: every request task has been awaited
ConnJoin(c) ==
    /\ listener.conn[c] = "join"
    /\ \A s \in StreamIds :
        listener.request_conn[s] = c => listener.request[s] # "running"
    /\ listener' = [listener EXCEPT !.conn[c] = "done"]
    /\ db' = db
    /\ ListenerUnchanged

\* the span of the client that stream s carries
StreamSpan(s) ==
    [QuiverLogged EXCEPT !.head.span_id = s]

\* handle_request of stream s returns: with the task for save_spans spawned
\* when the stream held a span, with an error otherwise
Request(s) ==
    /\ listener.request[s] = "running"
    /\ \E request \in {r \in QuiverRequests : r.span = QuiverLogged} :
        \E o \in {handle_request(request.stream)} :
            listener' = [listener EXCEPT
                !.request[s] = "done",
                !.save[s] = IF o.kind = "ok" THEN "spawned" ELSE "none"]
    /\ db' = db
    /\ ListenerUnchanged

\* the task spawned for save_spans runs to its end
SaveTask(s) ==
    /\ listener.save[s] = "spawned"
    /\ listener' = [listener EXCEPT !.save[s] = "finished"]
    /\ SpawnSaveSpans(<<span_from_quiver(StreamSpan(s))>>)
    /\ ListenerUnchanged

\* run after the loop: every connection task has been awaited, the endpoint
\* is closed and run returns
RunReturn ==
    /\ listener.run = "join"
    /\ \A c \in ConnIds : listener.conn[c] \in {"none", "done"}
    /\ listener' = [listener EXCEPT !.run = "returned"]
    /\ db' = db
    /\ ListenerUnchanged

NextListener ==
    \/ Signal
    \/ \E c \in ConnIds : Accept(c)
    \/ RunBreak
    \/ \E c \in ConnIds, s \in StreamIds : AcceptUni(c, s)
    \/ \E c \in ConnIds : ConnBreak(c)
    \/ \E c \in ConnIds : ConnClosed(c)
    \/ \E c \in ConnIds : ConnJoin(c)
    \/ \E s \in StreamIds : Request(s)
    \/ \E s \in StreamIds : SaveTask(s)
    \/ RunReturn

SpecListener == Init /\ [][NextListener]_vars

(***************************************************************************)
(* The steps of the tracing layer.                                         *)
(***************************************************************************)
LayerUnchanged ==
    UNCHANGED <<db, tx, lock, pc, spans, trace_info, last_batch, resp, client, listener>>

\* span.scope().from_root().next(): the outermost span that encloses id
RECURSIVE scope_root(_, _)
scope_root(registry, id) ==
    IF registry[id].parent = 0 THEN id ELSE scope_root(registry, registry[id].parent)

\* the trace id of on_new_span: that of the SpanBuilder of the root of the
\* scope, unless the span is the root itself or the root has no SpanBuilder,
\* and a random one then
trace_id_of_root(registry, id, random) ==
    LET root == scope_root(registry, id)
    IN  IF root # id /\ registry[root].has_builder THEN registry[root].trace_id
        ELSE random

\* the parent of on_new_span: a ChildOf reference to the span that directly
\* encloses the new one, when that has a SpanBuilder
parent_reference(registry, id) ==
    LET up == registry[id].parent
    IN  IF up # 0 /\ registry[up].has_builder
        THEN <<[ty |-> "ChildOf", trace_id |-> registry[up].trace_id,
                span_id |-> registry[up].span_id]>>
        ELSE << >>

\* the name of the crate of the layer: env!("CARGO_CRATE_NAME")
CrateName == "tracing_quiver"

\* the separator of the segments of a target
PathSep == "::"

\* str::split("::").next(): the tokens of the target before the first separator
first_segment(target) ==
    IF \E i \in DOMAIN target : target[i] = PathSep
    THEN SubSeq(target, 1, IndexOf(target, PathSep) - 1)
    ELSE target

\* skip that knows the crate of the layer only
skip_own_crate_only(target) == Str(first_segment(target)) = CrateName

\* QuiverLayer::skip: the first segment of the target is the crate of the
\* layer, quinn or quinn_proto
skip(target) ==
    Str(first_segment(target)) \in {CrateName, "quinn", "quinn_proto"}

\* the Timings of span id as a callback finds them
TimingsEvent(kind, id, now) ==
    [kind |-> kind, id |-> id, now |-> now, busy |-> layer.span[id].busy,
     idle |-> layer.span[id].idle, last |-> layer.span[id].last]

\* Instant::duration_since: zero when the earlier instant is the later one
duration_since(now, earlier) == IF now > earlier THEN now - earlier ELSE 0

\* on_new_span at the clock reading now for a span the registry has just
\* made inside the span `up` (0: inside none); a span of a skipped target
\* gets neither Timings nor a SpanBuilder
OnNewSpan(id, up, target, now) ==
    /\ layer.span[id].state = "none"
    /\ \A i \in SpanIds : i < id => layer.span[i].state # "none"
    /\ IF up = 0 THEN TRUE ELSE up < id /\ layer.span[up].state = "open"
    /\ \E t \in RandomNonZeroU128, s \in RandomNonZeroU64 :
        LET skipped == skip(target)
            registry == [layer.span EXCEPT
                            ![id] = [NoSpan EXCEPT !.state = "open", !.parent = up,
                                                   !.skipped = skipped,
                                                   !.target = target]]
        IN  layer' = [layer EXCEPT
                !.span =
                    IF skipped THEN registry
                    ELSE [registry EXCEPT
                            ![id].has_timings = TRUE,
                            ![id].last = now,
                            ![id].created = now,
                            ![id].has_builder = TRUE,
                            ![id].trace_id = trace_id_of_root(registry, id, t),
                            ![id].span_id = s,
                            ![id].parent_ref = parent_reference(registry, id)],
                !.clock = IF skipped THEN @ ELSE now,
                !.event = TimingsEvent("new", id, now)]
    /\ LayerUnchanged

\* on_enter at the clock reading now: the time since the last callback was idle
OnEnter(id, now) ==
    /\ layer.span[id].state = "open"
    /\ layer' =
        IF skip(layer.span[id].target) \/ ~layer.span[id].has_timings
        THEN [layer EXCEPT !.event = TimingsEvent("enter", id, now)]
        ELSE [layer EXCEPT
                !.span[id].idle = @ + duration_since(now, layer.span[id].last),
                !.span[id].last = now,
                !.clock = now,
                !.event = TimingsEvent("enter", id, now)]
    /\ LayerUnchanged

\* the busy time of on_exit held back: the time since the last callback
\* is counted as idle
on_exit_as_idle(timings, now) ==
    [timings EXCEPT !.idle = @ + duration_since(now, timings.last), !.last = now]

\* the Timings after on_exit at now: the time since the last callback was busy
on_exit_timings(timings, now) ==
    [timings EXCEPT !.busy = @ + duration_since(now, timings.last), !.last = now]

\* on_exit at the clock reading now
OnExit(id, now) ==
    /\ layer.span[id].state = "open"
    /\ layer' =
        IF skip(layer.span[id].target) \/ ~layer.span[id].has_timings
        THEN [layer EXCEPT !.event = TimingsEvent("exit", id, now)]
        ELSE [layer EXCEPT
                !.span[id] = on_exit_timings(@, now),
                !.clock = now,
                !.event = TimingsEvent("exit", id, now)]
    /\ LayerUnchanged

\* on_close, once the spans inside have closed: the SpanBuilder is taken
\* out and the span sent
OnClose(id) ==
    /\ layer.span[id].state = "open"
    /\ \A i \in SpanIds : layer.span[i].parent = id => layer.span[i].state = "closed"
    /\ layer' =
        IF skip(layer.span[id].target)
        THEN [layer EXCEPT !.span[id].state = "closed",
                           !.event = TimingsEvent("close", id, layer.clock)]
        ELSE [layer EXCEPT
                !.span[id].state = "closed",
                !.span[id].has_builder = FALSE,
                !.span[id].has_timings = FALSE,
                !.emitted = @ \cup {[id |-> id,
                                     trace_id |-> layer.span[id].trace_id,
                                     span_id |-> layer.span[id].span_id,
                                     references |-> layer.span[id].parent_ref,
                                     timing |-> [busy |-> layer.span[id].busy,
                                                 idle |-> layer.span[id].idle]]},
                !.event = TimingsEvent("close", id, layer.clock)]
    /\ LayerUnchanged

\* the targets of the spans of an application and of the QUIC stack
LayerTargets == {<<"app">>, <<"quinn">>}

\* the spans of an application nest; the clock stands still
NextLayer ==
    \/ \E id \in SpanIds, up \in {0} \cup SpanIds, target \in LayerTargets :
        OnNewSpan(id, up, target, layer.clock)
    \/ \E id \in SpanIds : OnClose(id)

SpecLayer == Init /\ [][NextLayer]_vars

\* the span that is entered and exited while the clock runs: the Timings of
\* a span are its own
TimedSpanIds == {1}

\* the readings of the clock from the last one on: the clock is monotonic
Instants == layer.clock..MaxClock

NextTiming ==
    \/ \E id \in TimedSpanIds, target \in LayerTargets, now \in Instants :
        OnNewSpan(id, 0, target, now)
    \/ \E id \in TimedSpanIds, now \in Instants : OnEnter(id, now)
    \/ \E id \in TimedSpanIds, now \in Instants : OnExit(id, now)
    \/ \E id \in TimedSpanIds : OnClose(id)

SpecTiming == Init /\ [][NextTiming]_vars

(***************************************************************************)
(* The callbacks of the layer over the targets of the application, of the  *)
(* layer's own crate and of the crates of the QUIC stack.                  *)
(***************************************************************************)
\* the records a span takes in the model
MaxRecords == 2

\* on_record: the values go to the tags of the SpanBuilder
OnRecord(id) ==
    /\ layer.span[id].state = "open"
    /\ layer.span[id].tags < MaxRecords
    /\ layer' =
        IF skip(layer.span[id].target) \/ ~layer.span[id].has_builder
        THEN [layer EXCEPT !.event = TimingsEvent("record", id, layer.clock)]
        ELSE [layer EXCEPT !.span[id].tags = @ + 1,
                           !.event = TimingsEvent("record", id, layer.clock)]
    /\ LayerUnchanged

\* on_follows_from: a FollowsFrom reference to the span followed, when both
\* have a SpanBuilder
OnFollowsFrom(id, follows) ==
    /\ layer.span[id].state = "open"
    /\ layer.span[follows].state = "open"
    /\ id # follows
    /\ layer' =
        IF skip(layer.span[id].target) \/ ~layer.span[id].has_builder
            \/ ~layer.span[follows].has_builder
        THEN [layer EXCEPT !.event = TimingsEvent("follows", id, layer.clock)]
        ELSE [layer EXCEPT !.span[id].follows = @ \cup {follows},
                           !.event = TimingsEvent("follows", id, layer.clock)]
    /\ LayerUnchanged

\* an event of the target inside the span current
LogEvent(target, current) == [kind |-> "event", id |-> current, target |-> target]

\* on_event inside the current span: the event becomes a log of the
\* SpanBuilder of that span
OnEvent(target, current) ==
    /\ layer.span[current].state = "open"
    /\ layer.span[current].logs < MaxRecords
    /\ layer' =
        IF skip(target) THEN [layer EXCEPT !.event = LogEvent(target, current)]
        ELSE IF skip(layer.span[current].target) \/ ~layer.span[current].has_builder
        THEN [layer EXCEPT !.event = LogEvent(target, current)]
        ELSE [layer EXCEPT !.span[current].logs = @ + 1,
                           !.event = LogEvent(target, current)]
    /\ LayerUnchanged

\* the span the model follows through every callback, and a second span of
\* the application or of quinn for it to enclose or to follow
SkipSpanIds == {1}

FollowedSpanIds == {2}

\* targets of the application (one with quinn as a later segment), of the
\* crate of the layer, of quinn and quinn_proto, and of a crate whose name
\* starts like quinn
SkipTargets ==
    { <<"app">>, <<"app", "::", "quinn">>,
      <<"tracing_quiver", "::", "connection">>,
      <<"quinn">>, <<"quinn", "::", "connection">>,
      <<"quinn", "_proto", "::", "connection">>,
      <<"quinn", "_udp">> }

\* the next reading of the clock: a tick later, while the clock has ticks left
NextInstant == {IF layer.clock < MaxClock THEN layer.clock + 1 ELSE layer.clock}

SkipTargetsOf(id) == IF id \in SkipSpanIds THEN SkipTargets ELSE LayerTargets

\* the targets of the events: the application, the crate of the layer, a
\* crate of the QUIC stack the layer skips and one it does not
EventTargets ==
    { <<"app">>, <<"tracing_quiver">>, <<"quinn", "_proto", "::", "connection">>,
      <<"quinn", "_udp">> }

NextSkip ==
    \/ \E id \in SkipSpanIds \cup FollowedSpanIds, up \in {0} \cup SkipSpanIds :
        \E target \in SkipTargetsOf(id) : OnNewSpan(id, up, target, layer.clock)
    \/ \E id \in SkipSpanIds : OnRecord(id)
    \/ \E id \in SkipSpanIds, follows \in FollowedSpanIds : OnFollowsFrom(id, follows)
    \/ \E target \in EventTargets, current \in SkipSpanIds : OnEvent(target, current)
    \/ \E id \in SkipSpanIds, now \in NextInstant : OnEnter(id, now)
    \/ \E id \in SkipSpanIds, now \in NextInstant : OnExit(id, now)
    \/ \E id \in SkipSpanIds \cup FollowedSpanIds : OnClose(id)

SpecSkip == Init /\ [][NextSkip]_vars

(***************************************************************************)
(* list_spans with the operation of a predicate query.                     *)
(***************************************************************************)
\* the operations of the queries: two that stored spans have, one that none has
Operations == {"x", "y", "z"}

\* the parameters of into_db for a query that names an operation, over the
\* whole range of the timestamps and without bounds on the duration
OperationParams ==
    { [service |-> sv, operation |-> Some(o), start |-> 0, end |-> Now,
       duration_min |-> None, duration_max |-> None, limit |-> li,
       tags |-> << >>] :
        sv \in Services, o \in Operations, li \in {1, DefaultLimit} }

ListSpansOfOperation ==
    /\ resp = NoResp
    /\ \E params \in OperationParams :
        \E r \in list_spans(db, params) :
            resp' = [op |-> "list_spans", params |-> params,
                     selected |-> r.selected, result |-> r.result]
    /\ UNCHANGED <<db, tx, lock, pc, spans, trace_info, last_batch, client, listener, layer>>

NextOperation ==
    \/ \E c \in Callers : SaveSpansCall(c, SeqsUpTo(ListPool, MaxBatchLen))
    \/ ListSpansOfOperation
    \/ Return

SpecOperation == Init /\ [][NextOperation]_vars

(***************************************************************************)
(* The read queries of concurrent callers on the read-only connection,     *)
(* over a database file that holds what earlier runs have saved.           *)
(***************************************************************************)
\* the database files the reader opens
StoredDbs == {EmptyDb} \cup {save_spans(EmptyDb, batch) : batch \in StoreBatches}

ReadersInit ==
    /\ db \in StoredDbs
    /\ tx = EmptyDb
    /\ lock = 0
    /\ pc = [c \in Callers |-> "idle"]
    /\ spans = [c \in Callers |-> << >>]
    /\ trace_info = [c \in Callers |-> << >>]
    /\ last_batch = << >>
    /\ resp = NoResp
    /\ client = ClientInit
    /\ listener = ListenerInit
    /\ layer = LayerInit

\* a read query is called: interact asks for the mutex of the connection
ReadCall(c) ==
    /\ pc[c] = "idle"
    /\ pc' = [pc EXCEPT ![c] = "read_wait"]
    /\ UNCHANGED <<db, tx, lock, spans, trace_info, last_batch, resp, client, listener, layer>>

\* lock_owned().await of interact returns once no other query holds the
\* guard of the one read-only connection
lock_owned(positions, c) == \A d \in DOMAIN positions : positions[d] # "reading"

\* the closure of the query runs on the blocking pool with the guard
ReadLocked(c) ==
    /\ pc[c] = "read_wait"
    /\ lock_owned(pc, c)
    /\ pc' = [pc EXCEPT ![c] = "reading"]
    /\ \/ \E id \in TraceIds :
            resp' = [op |-> "find_trace", id |-> id, result |-> find_trace(db, id)]
       \/ \E ids \in SUBSET TraceIds :
            resp' = [op |-> "find_traces", ids |-> ids, result |-> find_traces(db, ids)]
    /\ UNCHANGED <<db, tx, lock, spans, trace_info, last_batch, client, listener, layer>>

\* the closure has returned: the guard is dropped and the query returns
ReadReturn(c) ==
    /\ pc[c] = "reading"
    /\ pc' = [pc EXCEPT ![c] = "idle"]
    /\ resp' = NoResp
    /\ UNCHANGED <<db, tx, lock, spans, trace_info, last_batch, client, listener, layer>>

NextReaders ==
    \/ \E c \in Callers : ReadCall(c)
    \/ \E c \in Callers : ReadLocked(c)
    \/ \E c \in Callers : ReadReturn(c)

SpecReaders == ReadersInit /\ [][NextReaders]_vars

(***************************************************************************)
(* The ingest handlers with the task they detach: the handler converts,    *)
(* spawns the task that runs save_spans and answers; the task then takes   *)
(* the steps of save_spans on its own.                                     *)
(***************************************************************************)
DetachedResp(op, c, request, outcome, saved, status) ==
    [op |-> op, caller |-> c, request |-> request, outcome |-> outcome,
     saved |-> saved, status |-> status]

\* the handler awaits save_spans before it answers
await_save_spans(conn, batch) ==
    [pc |-> "ok", db |-> save_spans(conn, batch)]

\* tokio::spawn of the task that calls db.save_spans: the task stands at the
\* call and the handler goes on
spawn_save_spans(conn, batch) ==
    [pc |-> "wait", db |-> conn]

\* what a handler does with the outcome of its conversion
Detach(op, c, request, o, accepted, rejected) ==
    IF o.kind = "ok"
    THEN \E task \in {spawn_save_spans(db, o.v)} :
            /\ db' = task.db
            /\ pc' = [pc EXCEPT ![c] = task.pc]
            /\ spans' = [spans EXCEPT ![c] = o.v]
            /\ trace_info' = [trace_info EXCEPT ![c] = from_spans(o.v)]
            /\ resp' = DetachedResp(op, c, request, "accepted", o.v, accepted)
    ELSE /\ resp' = DetachedResp(op, c, request,
                        IF o.kind = "err" THEN "rejected" ELSE "panicked", << >>,
                        IF o.kind = "err" THEN rejected ELSE NoStatus)
         /\ UNCHANGED <<db, pc, spans, trace_info>>

\* the batches of the requests: one that converts, one with a tag no
\* conversion accepts
DetachedBatches ==
    {[process |-> Some([service_name |-> "svc", tags |-> << >>]), spans |-> ss] :
        ss \in { <<ThriftPlain>>, <<ThriftLate>>, <<ThriftPlain, ThriftBadTag>> }}

\* the resource spans of the export requests
DetachedExports ==
    { <<[resource |-> None, spans |-> <<OtlpPlain>>]>>,
      <<[resource |-> None, spans |-> <<OtlpLate>>]>> }

\* jaeger::collector::traces after the extractor
Traces(c) ==
    /\ pc[c] = "idle"
    /\ resp = NoResp
    /\ \E batch \in DetachedBatches :
        \E o \in CollectAll([i \in DOMAIN batch.spans |->
                    span_from_thrift(batch.spans[i], batch.process)]) :
            Detach("traces", c, batch, o, StatusAccepted, StatusBadRequest)
    /\ UNCHANGED <<tx, lock, last_batch, client, listener, layer>>

\* jaeger::agent: Handler::handle_emit_batch, which answers Ok(()) or the
\* error of the conversion
HandleEmitBatch(c) ==
    /\ pc[c] = "idle"
    /\ resp = NoResp
    /\ \E batch \in DetachedBatches :
        \E o \in CollectAll([i \in DOMAIN batch.spans |->
                    span_from_thrift(batch.spans[i], batch.process)]) :
            Detach("emit_batch", c, batch, o, NoStatus, NoStatus)
    /\ UNCHANGED <<tx, lock, last_batch, client, listener, layer>>

\* otel::collector: TraceService::export, which answers the default response
\* or Status::invalid_argument
Export(c) ==
    /\ pc[c] = "idle"
    /\ resp = NoResp
    /\ \E request \in DetachedExports :
        \E o \in convert_resource_spans(request) :
            Detach("export", c, request, o, NoStatus, NoStatus)
    /\ UNCHANGED <<tx, lock, last_batch, client, listener, layer>>

NextDetached ==
    \/ \E c \in Callers : Traces(c)
    \/ \E c \in Callers : HandleEmitBatch(c)
    \/ \E c \in Callers : Export(c)
    \/ \E c \in Callers : Lock(c)
    \/ \E c \in Callers : SaveServices(c)
    \/ \E c \in Callers : SaveOperations(c)
    \/ \E c \in Callers : SaveTraces(c)
    \/ \E c \in Callers : SaveSpans(c)
    \/ \E c \in Callers : Commit(c)
    \/ \E c \in Callers : Fail(c)
    \/ Return

SpecDetached == Init /\ [][NextDetached]_vars

(***************************************************************************)
(* convert::thrift::span over the references of a span.                    *)
(***************************************************************************)
MaxRefs == 2

\* the trace ids of the wire: two of one low half, two of one high half
WireTraceIds == {<<0, 5>>, <<1, 5>>, <<0, 6>>}

\* the span ids of parents and references, one of them negative
WireSpanIds == {3, 4, 0 - 1}

WireRefs ==
    {ThriftSpanRef(ty, t[1], t[2], sid) :
        ty \in {"CHILD_OF", "FOLLOWS_FROM"}, t \in WireTraceIds, sid \in WireSpanIds}

\* spans with and without a parent_span_id, with up to MaxRefs references
RefSpans ==
    {ThriftSpan(t[1], t[2], 9, parent, "x", refs, 1, 1, 1, << >>) :
        t \in {<<0, 5>>, <<1, 5>>}, parent \in WireSpanIds \cup {0},
        refs \in SeqsUpTo(WireRefs, MaxRefs) \cup {<< >>}}

\* convert::thrift::span of one span of a batch without a process
ThriftSpanConvert ==
    /\ resp = NoResp
    /\ \E span \in RefSpans :
        \E o \in {thrift_span(span, None)} :
            resp' = [op |-> "thrift_span", span |-> span, result |-> o]
    /\ UNCHANGED <<db, tx, lock, pc, spans, trace_info, last_batch, client, listener, layer>>

NextThriftRefs ==
    \/ ThriftSpanConvert
    \/ Return

SpecThriftRefs == Init /\ [][NextThriftRefs]_vars

(***************************************************************************)
(* The tag filter of a predicate query: the tag and tags parameters.       *)
(***************************************************************************)
MaxParams == 3

\* a parameter, with the entries it supplies to the filter (none for a
\* parameter that is no tag filter)
Param(key, value, entries) == [key |-> key, value |-> value, entries |-> entries]

\* the parameters of the requests next to service=a: tag pairs (one with a
\* second ':', two for one key), JSON objects (one empty, one with a key the
\* tag pairs use too), and parameters that are no tag filter
TagParams ==
    { Param("tag", <<"a", ":", "1">>, << <<"a", "1">> >>),
      Param("tag", <<"a", ":", "2">>, << <<"a", "2">> >>),
      Param("tag", <<"b", ":", "x", ":", "y">>, << <<"b", "x:y">> >>),
      Param("tags", <<"{", Quote, "b", Quote, ":", Quote, "2", Quote, "}">>,
            << <<"b", "2">> >>),
      Param("tags", <<"{", Quote, "a", Quote, ":", Quote, "3", Quote, ",",
                      Quote, "c", Quote, ":", Quote, "4", Quote, "}">>,
            << <<"a", "3">>, <<"c", "4">> >>),
      Param("tags", <<"{", "}">>, << >>),
      Param("lookback", <<"1", "h">>, << >>),
      Param("other", <<"z", ":", "9">>, << >>),
      Param("operation", <<"o", ":", "p">>, << >>) }

\* Query<TracesQuery> of service=a and the parameters
TagsQuery ==
    /\ resp = NoResp
    /\ \E params \in SeqsUpTo(TagParams, MaxParams) \cup {<< >>}, at \in 0..MaxParams :
        /\ at <= Len(params)
        /\ LET q == [i \in 1..(Len(params) + 1) |->
                        IF i <= at THEN <<params[i].key, params[i].value>>
                        ELSE IF i = at + 1 THEN <<"service", <<"a">> >>
                        ELSE <<params[i - 1].key, params[i - 1].value>>]
           IN  resp' = [op |-> "tags", params |-> params, query |-> q,
                        result |-> ParseTracesQuery(q)]
    /\ UNCHANGED <<db, tx, lock, pc, spans, trace_info, last_batch, client, listener, layer>>

NextTags ==
    \/ TagsQuery
    \/ Return

SpecTags == Init /\ [][NextTags]_vars

(***************************************************************************)
(* de::duration_human: the durations of minDuration and maxDuration. A     *)
(* Duration is whole seconds and the nanoseconds of the second begun.      *)
(***************************************************************************)
MaxGroups == 2

\* the micro sign U+00B5, one character that is no ASCII letter
MicroSign == "micro-sign"

AsciiDigit == Range(DecDigits)

AsciiAlphabetic ==
    {"a", "b", "c", "d", "e", "f", "g", "h", "i", "j", "k", "l", "m", "n", "o",
     "p", "q", "r", "s", "t", "u", "v", "w", "x", "y", "z", "S", "X"}

MkDuration(seconds, nanoseconds) == [seconds |-> seconds, nanoseconds |-> nanoseconds]

\* Duration::nanoseconds
DurationNanoseconds(n) == MkDuration(n \div NanosPerSecond, n % NanosPerSecond)

\* Duration + Duration, of two durations that are not negative
DurationAdd(a, b) ==
    MkDuration(a.seconds + b.seconds + (a.nanoseconds + b.nanoseconds) \div NanosPerSecond,
               (a.nanoseconds + b.nanoseconds) % NanosPerSecond)

\* Duration::neg
DurationNeg(d) == MkDuration(0 - d.seconds, 0 - d.nanoseconds)

\* str::find: the place of the first character of the class from the
\* place `from` on, or one past the end
FindFrom(value, from, class) ==
    Min({i \in from..Len(value) : value[i] \in class} \cup {Len(value) + 1})

\* str::parse::<f64> of a text without letters that starts with a digit:
\* digits, then a point and digits when there is a point; the number is
\* digits / scale
parse_f64(chars) ==
    CHOOSE out \in
        {IF point > Len(chars)
         THEN (IF whole.ok THEN [ok |-> TRUE, digits |-> whole.v, scale |-> 1]
               ELSE [ok |-> FALSE])
         ELSE CHOOSE res \in
                {IF int.ok /\ frac.ok /\ point > 1
                 THEN [ok |-> TRUE, digits |-> frac.v, scale |-> DecRadix ^ (Len(chars) - point)]
                 ELSE [ok |-> FALSE] :
                    int \in {parse_digits(SubSeq(chars, 1, point - 1), 0)},
                    frac \in {parse_digits(SubSeq(chars, 1, point - 1)
                                \o SubSeq(chars, point + 1, Len(chars)), 0)}} : TRUE :
            point \in {FindFrom(chars, 1, {"."})},
            whole \in {IF chars = << >> THEN [ok |-> FALSE] ELSE parse_digits(chars, 0)}} : TRUE

\* Duration::nanoseconds((number * per_unit).floor())
floor_nanoseconds(number, per_unit) ==
    DurationNanoseconds((number.digits * per_unit) \div number.scale)

\* Duration::seconds_f64(number * seconds_per_unit)
seconds_f64(number, seconds_per_unit) ==
    MkDuration((number.digits * seconds_per_unit) \div number.scale,
               ((number.digits * seconds_per_unit) % number.scale)
                    * (NanosPerSecond \div number.scale))

NanosPerMilli == 1000000

SecondsPerMinute == 60

SecondsPerHour == 3600

\* the match on the unit in parse
unit_duration(number, unit) ==
    CASE unit = <<"n", "s">> -> [ok |-> TRUE, v |-> floor_nanoseconds(number, 1)]
      [] unit \in {<<"u", "s">>, <<MicroSign, "s">>} ->
            [ok |-> TRUE, v |-> floor_nanoseconds(number, NanosPerMicro)]
      [] unit = <<"m", "s">> -> [ok |-> TRUE, v |-> floor_nanoseconds(number, NanosPerMilli)]
      [] unit = <<"s">> -> [ok |-> TRUE, v |-> seconds_f64(number, 1)]
      [] unit = <<"m">> -> [ok |-> TRUE, v |-> seconds_f64(number, SecondsPerMinute)]
      [] unit = <<"h">> -> [ok |-> TRUE, v |-> seconds_f64(number, SecondsPerHour)]
      [] OTHER -> [ok |-> FALSE]

\* find_start of find_next_unit: the first ASCII letter
find_start(value) == FindFrom(value, 1, AsciiAlphabetic)

\* find_next_unit: the unit runs from the first ASCII letter to the next
\* ASCII digit or the end
find_next_unit(value) ==
    CHOOSE out \in
        {IF start > Len(value) THEN None
         ELSE Some([start |-> start, end |-> FindFrom(value, start, AsciiDigit)]) :
            start \in {find_start(value)}} : TRUE

\* the loop of parse over what is left of the value
RECURSIVE parse_loop(_, _)
parse_loop(value, total) ==
    CHOOSE out \in
        {IF ~unit.some
         THEN (IF value = << >> THEN [ok |-> TRUE, v |-> total] ELSE [ok |-> FALSE])
         ELSE CHOOSE res \in
                {IF ~number.ok THEN [ok |-> FALSE]
                 ELSE CHOOSE r \in
                        {IF ~duration.ok THEN [ok |-> FALSE]
                         ELSE parse_loop(SubSeq(value, unit.v.end, Len(value)),
                                         DurationAdd(total, duration.v)) :
                            duration \in {unit_duration(number,
                                SubSeq(value, unit.v.start, unit.v.end - 1))}} : TRUE :
                    number \in {parse_f64(SubSeq(value, 1, unit.v.start - 1))}} : TRUE :
            unit \in {find_next_unit(value)}} : TRUE

\* DurationHumanVisitor::parse
duration_human_parse(value) ==
    LET negative == value # << >> /\ Head(value) = "-"
        rest == IF negative THEN Tail(value) ELSE value
    IN  IF rest = << >> \/ Head(rest) \notin AsciiDigit THEN [ok |-> FALSE]
        ELSE CHOOSE out \in
                {IF total.ok /\ negative THEN [ok |-> TRUE, v |-> DurationNeg(total.v)]
                 ELSE total : total \in {parse_loop(rest, MkDuration(0, 0))}} : TRUE

\* DurationHumanVisitor::visit_str
DurationHumanVisitor(v) ==
    IF v = << >> THEN [ok |-> TRUE, v |-> None]
    ELSE CHOOSE out \in
            {IF r.ok THEN [ok |-> TRUE, v |-> Some(r.v)] ELSE [ok |-> FALSE] :
                r \in {duration_human_parse(v)}} : TRUE

\* the numbers of the requests, with their value in tenths
HumanNumbers ==
    { [chars |-> <<"5">>, tenths |-> 50],
      [chars |-> <<"1", "0">>, tenths |-> 100],
      [chars |-> <<"1", ".", "2">>, tenths |-> 12] }

\* the documented units, with the nanoseconds of one unit for the units
\* below a second and the seconds of one unit for the others
HumanUnits ==
    { [chars |-> <<"n", "s">>, nanos |-> 1, seconds |-> 0],
      [chars |-> <<"u", "s">>, nanos |-> 1000, seconds |-> 0],
      [chars |-> <<MicroSign, "s">>, nanos |-> 1000, seconds |-> 0],
      [chars |-> <<"m", "s">>, nanos |-> 1000000, seconds |-> 0],
      [chars |-> <<"s">>, nanos |-> 0, seconds |-> 1],
      [chars |-> <<"m">>, nanos |-> 0, seconds |-> 60],
      [chars |-> <<"h">>, nanos |-> 0, seconds |-> 3600] }

HumanGroups == [number : HumanNumbers, unit : HumanUnits]

RECURSIVE GroupChars(_)
GroupChars(groups) ==
    IF groups = << >> THEN << >>
    ELSE Head(groups).number.chars \o Head(groups).unit.chars \o GroupChars(Tail(groups))

\* a value made of groups, with the groups it is made of
Grouped(negative, groups) ==
    [chars |-> (IF negative THEN <<"-">> ELSE << >>) \o GroupChars(groups),
     form |-> Some([negative |-> negative, groups |-> groups])]

\* a value that is not made of groups
Ungrouped(chars) == [chars |-> chars, form |-> None]

\* the values of minDuration and maxDuration: every sequence of groups, with
\* a sign and without, the combined value of the documentation, and values
\* that are no sequence of groups
HumanValues ==
    {Grouped(negative, groups) :
        negative \in BOOLEAN, groups \in SeqsUpTo(HumanGroups, MaxGroups)}
    \cup {Grouped(FALSE,
            <<[number |-> [chars |-> <<"1", ".", "2">>, tenths |-> 12],
               unit |-> [chars |-> <<"h">>, nanos |-> 0, seconds |-> 3600]],
              [number |-> [chars |-> <<"3", "0">>, tenths |-> 300],
               unit |-> [chars |-> <<"m">>, nanos |-> 0, seconds |-> 60]],
              [number |-> [chars |-> <<"4", "5">>, tenths |-> 450],
               unit |-> [chars |-> <<"s">>, nanos |-> 0, seconds |-> 1]],
              [number |-> [chars |-> <<"1", "2", "0", ".", "2">>, tenths |-> 1202],
               unit |-> [chars |-> <<"m", "s">>, nanos |-> 1000000, seconds |-> 0]]>>)}
    \cup {Ungrouped(chars) :
            chars \in { << >>, <<"5", "x">>, <<"5">>, <<"-">>, <<"-", "5">>,
                        <<"s">>, <<"x", "5", "s">>, <<"5", "s", "3">>,
                        <<"5", "S">>, <<"5", "s", "s">>, <<".", "5", "s">>,
                        <<"+", "5", "s">>, <<"1", ".", "2", ".", "3", "s">>,
                        <<"5", " ", "s">>, <<"-", "-", "5", "s">>,
                        <<"5", "s", "-", "3", "s">> }}

\* de::duration_human of the value of minDuration or maxDuration
DurationHuman ==
    /\ resp = NoResp
    /\ \E value \in HumanValues :
        resp' = [op |-> "duration_human", value |-> value.chars, form |-> value.form,
                 result |-> DurationHumanVisitor(value.chars)]
    /\ UNCHANGED <<db, tx, lock, pc, spans, trace_info, last_batch, client, listener, layer>>

NextDuration ==
    \/ DurationHuman
    \/ Return

SpecDuration == Init /\ [][NextDuration]_vars

(***************************************************************************)
(* convert::json: the spans of one trace as the trace of the UI, with the  *)
(* processes of the spans gathered in a map.                               *)
(***************************************************************************)
MaxTraceLen == 4

\* the widths of i64 / u64 and of i128 / u128 in bytes, and the least byte
\* that carries the sign bit
I64Len == 8

I128Len == 16

SignByte == 128

\* a cast that saturates: a value above i64::MAX becomes i64::MAX, one below
\* i64::MIN becomes i64::MIN
as_i64_saturating(ty, bytes) ==
    LET low == SubSeq(bytes, Len(bytes) - I64Len + 1, Len(bytes))
        high == SubSeq(bytes, 1, Len(bytes) - I64Len)
        max == [i \in 1..I64Len |-> IF i = 1 THEN SignByte - 1 ELSE ByteRadix - 1]
        min == [i \in 1..I64Len |-> IF i = 1 THEN SignByte ELSE 0]
        negative == ty = "I128" /\ bytes[1] >= SignByte
    IN  IF negative
        THEN IF (\A i \in DOMAIN high : high[i] = ByteRadix - 1) /\ low[1] >= SignByte
             THEN low ELSE min
        ELSE IF (\A i \in DOMAIN high : high[i] = 0) /\ low[1] < SignByte
             THEN low ELSE max

\* `as i64` of a u64, i128 or u128 held as its big-endian bytes: the cast
\* truncates to the low 64 bits, which are the eight last bytes, and the
\* result is the i64 with these bytes in two's complement
as_i64(ty, bytes) == SubSeq(bytes, Len(bytes) - I64Len + 1, Len(bytes))

\* key_value: the integers of every width become Int64. An i64 is held as
\* its number and goes through as it is; the wider and the unsigned integers
\* are held as their big-endian bytes and are cast
json_key_value(kv) ==
    [key |-> kv.key,
     value |-> CASE kv.value.ty = "F64" -> [ty |-> "Float64", v |-> kv.value.v]
                 [] kv.value.ty = "I64" -> [ty |-> "Int64", v |-> kv.value.v]
                 [] kv.value.ty \in {"U64", "I128", "U128"} ->
                        [ty |-> "Int64", v |-> as_i64(kv.value.ty, kv.value.v)]
                 [] kv.value.ty = "Bool" -> [ty |-> "Bool", v |-> kv.value.v]
                 [] kv.value.ty = "String" -> [ty |-> "String", v |-> kv.value.v]
                 [] kv.value.ty = "Binary" -> [ty |-> "Binary", v |-> kv.value.v]]

\* the lookup of process held back: no process is found in the map
get_by_right_none(processes, process) == {}

\* BiHashMap::get_by_right: the keys under which the map holds process
get_by_right(processes, process) == {e[1] : e \in {f \in processes : f[2] = process}}

\* process: the key of the process in the map, a new one "p<counter>" when
\* the map does not hold it
json_process(processes, counter, process) ==
    LET p == [serviceName |-> process.service,
              tags |-> [i \in DOMAIN process.tags |-> json_key_value(process.tags[i])]]
    IN  CHOOSE out \in
            {IF found # {}
             THEN [pid |-> CHOOSE pid \in found : TRUE, processes |-> processes,
                   counter |-> counter]
             ELSE [pid |-> "p" \o ToString(counter + 1),
                   processes |-> {e \in processes :
                                    e[1] # "p" \o ToString(counter + 1)}
                                 \cup {<<"p" \o ToString(counter + 1), p>>},
                   counter |-> counter + 1] :
                found \in {get_by_right(processes, p)}} : TRUE

\* span: the span under the key of its process
json_span(span, process_id) ==
    [traceID |-> TraceIdToHex(span.trace_id), spanID |-> span.span_id,
     flags |-> span.flags, operationName |-> span.operation_name,
     references |-> span.references, startTime |-> span.start,
     duration |-> span.duration,
     tags |-> [i \in DOMAIN span.tags |-> json_key_value(span.tags[i])],
     processID |-> process_id]

\* the closure of trace over the spans from the i-th on
RECURSIVE json_trace_loop(_, _, _, _, _)
json_trace_loop(batch, i, processes, counter, out) ==
    IF i > Len(batch) THEN [spans |-> out, processes |-> processes]
    ELSE CHOOSE res \in
            {json_trace_loop(batch, i + 1, p.processes, p.counter,
                             Append(out, json_span(batch[i], p.pid))) :
                p \in {json_process(processes, counter, batch[i].process)}} : TRUE

\* trace
json_trace(trace_id, batch) ==
    CHOOSE res \in
        {[traceID |-> TraceIdToHex(trace_id), spans |-> r.spans,
          processes |-> r.processes] :
            r \in {json_trace_loop(batch, 1, {}, 0, << >>)}} : TRUE

\* the processes of the spans: two services, tags, and the same tags in
\* another order
JsonProcesses ==
    { [service |-> "a", tags |-> << >>],
      [service |-> "b", tags |-> << >>],
      [service |-> "a", tags |-> <<Tag("k1", "String", "v"), Tag("k2", "I64", 1)>>],
      [service |-> "a", tags |-> <<Tag("k2", "I64", 1), Tag("k1", "String", "v")>>] }

\* the traces: spans of trace 5, the i-th with span id i
JsonTraces ==
    {[i \in DOMAIN ps |-> MkFullSpan(5, i, "x", 1, << >>, i, 1, << >>, << >>, ps[i])] :
        ps \in SeqsUpTo(JsonProcesses, MaxTraceLen)}

\* trace_to_json of the spans of a trace
TraceToJson ==
    /\ resp = NoResp
    /\ \E ss \in JsonTraces :
        resp' = [op |-> "trace_to_json", spans |-> ss, trace |-> json_trace(5, ss)]
    /\ UNCHANGED <<db, tx, lock, pc, spans, trace_info, last_batch, client, listener, layer>>

NextJson ==
    \/ TraceToJson
    \/ Return

SpecJson == Init /\ [][NextJson]_vars

(***************************************************************************)
(* convert::json::key_value over the integer tags: the thread id of a      *)
(* quiver span is a u64, its busy and idle times are i128, and a canonical *)
(* tag may hold a u128. The integers are held as big-endian bytes.         *)
(***************************************************************************)
\* the bytes at the edges of the sign and of the carry
EdgeBytes == {0, 1, SignByte - 1, SignByte, ByteRadix - 1}

\* the integers of n bytes: the first byte, the first byte of the low 64
\* bits and the last byte vary, the others are all 0 or all 255
WideInts(n) ==
    {[i \in 1..n |-> IF i = 1 THEN top
                     ELSE IF i = n - I64Len + 1 THEN mid
                     ELSE IF i = n THEN last ELSE fill] :
        top \in EdgeBytes, mid \in EdgeBytes, last \in EdgeBytes,
        fill \in {0, ByteRadix - 1}}

\* the integer tags of a span of the tracing client (its thread id, its
\* timings) and a u128 tag of a canonical span
IntegerTags ==
    {quiver_thread(<<[id |-> u, name |-> "main"]>>)[1] : u \in WideInts(I64Len)}
        \cup {quiver_timing([busy |-> i, idle |-> i])[1] : i \in WideInts(I128Len)}
        \cup {Tag("k", "U128", u) : u \in WideInts(I128Len)}

\* key_value of an integer tag
KeyValue ==
    /\ resp = NoResp
    /\ \E kv \in IntegerTags :
        resp' = [op |-> "key_value", tag |-> kv, json |-> json_key_value(kv)]
    /\ UNCHANGED <<db, tx, lock, pc, spans, trace_info, last_batch, client, listener, layer>>

NextKeyValue ==
    \/ KeyValue
    \/ Return

SpecKeyValue == Init /\ [][NextKeyValue]_vars

(***************************************************************************)
(* Properties of the write path.                                           *)
(***************************************************************************)
\* C1: save_spans is all-or-nothing. The visible tables hold exactly the
\* service, operation, trace-summary and span rows of the batches whose call
\* returned Ok: every row of a successful batch is visible, and a batch whose
\* call failed or is still inside its transaction contributes no row.
SaveSpansAllOrNothing ==
    /\ db.service = {s.process.service : s \in Persisted}
    /\ db.operation = {<<s.process.service, s.operation_name>> : s \in Persisted}
    /\ {r.trace_id : r \in db.trace} = {to_bytes(s.trace_id) : s \in Persisted}
    /\ {<<r.trace_id, r.span_id>> : r \in db.span}
        = {<<to_bytes(s.trace_id), s.span_id>> : s \in Persisted}
    /\ \A r \in db.span : decode_span(r.payload) \in Persisted

\* a call failed, another succeeded, and a service of the failed batch is not
\* visible
SaveSpansAllOrNothingWitness ==
    \E c, d \in Callers :
        /\ pc[c] = "err"
        /\ pc[d] = "ok"
        /\ \E i \in DOMAIN spans[c] : spans[c][i].process.service \notin db.service
        /\ \A i \in DOMAIN spans[d] : spans[d][i].process.service \in db.service

\* C2: for every trace id of the successful calls, in every interleaving,
\* there is exactly one trace-summary row; its timestamp is the minimum start
\* and its max_duration the maximum duration (in whole microseconds) over all
\* spans of that trace supplied by those calls.
TraceSummaryConverges ==
    \A t \in {s.trace_id : s \in Persisted} :
        LET rows == {r \in db.trace : r.trace_id = to_bytes(t)}
            mine == {s \in Persisted : s.trace_id = t}
        IN  /\ Cardinality(rows) = 1
            /\ \A r \in rows :
                /\ r.timestamp = Min({s.start : s \in mine})
                /\ r.max_duration =
                    WholeMicroseconds(Max({s.duration : s \in mine}))

\* two successful calls supplied spans of one trace; the minimum start comes
\* from one and the maximum duration from the other
TraceSummaryConvergesWitness ==
    \E c, d \in Callers :
        /\ c # d /\ pc[c] = "ok" /\ pc[d] = "ok"
        /\ \E i \in DOMAIN spans[c], j \in DOMAIN spans[d] :
            /\ spans[c][i].trace_id = spans[d][j].trace_id
            /\ spans[c][i].start < spans[d][j].start
            /\ spans[c][i].duration < spans[d][j].duration
            /\ \A s \in Persisted : s.trace_id = spans[c][i].trace_id =>
                /\ s.start >= spans[c][i].start
                /\ s.duration <= spans[d][j].duration

\* C3: a retransmitted batch is tolerated. When a call's batch equals the
\* batch of the transaction committed just before its own, no statement of the
\* call fails on the rows already there, and its commit leaves every table as
\* it was.
RetransmissionTolerated ==
    /\ [](\A c \in Callers :
            (pc[c] = "span" /\ last_batch = spans[c])
                => save_span_loop(tx, spans[c], 1).ok)
    /\ [][\A c \in Callers :
            (pc[c] = "commit" /\ pc'[c] = "ok" /\ last_batch = spans[c])
                => db' = db]_vars

\* the same batch was committed twice
RetransmissionToleratedWitness ==
    \E c, d \in Callers :
        /\ c # d /\ pc[c] = "ok" /\ pc[d] = "ok"
        /\ spans[c] = spans[d]
        /\ last_batch = spans[c]
        /\ Len(spans[c]) > 1

\* C8: find_trace(id) returns no span iff no successful save_spans call
\* supplied a span of trace id.
FindTraceEmptyIffNotPersisted ==
    [][(resp' # resp /\ resp'.op = "find_trace")
        => ((resp'.result = {})
            <=> (resp'.id \notin {s.trace_id : s \in Persisted}))]_vars

\* find_trace found nothing for a trace whose only batch failed
FindTraceEmptyIffNotPersistedWitness ==
    /\ resp.op = "find_trace"
    /\ resp.result = {}
    /\ resp.id \notin {s.trace_id : s \in Persisted}
    /\ \E c \in Callers :
        /\ pc[c] = "err"
        /\ \E i \in DOMAIN spans[c] : spans[c][i].trace_id = resp.id
    /\ \E c \in Callers : pc[c] = "ok"

(***************************************************************************)
(* Properties of list_spans.                                               *)
(***************************************************************************)
\* a step in which list_spans returns
ListSpansReturns == resp' # resp /\ resp'.op = "list_spans"

\* the trace-summary row of a returned trace
SummaryOf(t) == CHOOSE r \in db.trace : r.trace_id = to_bytes(t)

\* C4 (as claimed): list_spans(service = S, start = T0, end = T1) returns only
\* traces whose summary timestamp lies in the half-open interval [T0, T1) and
\* whose summary service is S.
ListSpansHalfOpenInterval ==
    [][ListSpansReturns =>
        \A t \in DOMAIN resp'.result :
            /\ \E r \in db.trace : r.trace_id = to_bytes(t)
            /\ SummaryOf(t).service = resp'.params.service
            /\ resp'.params.start <= SummaryOf(t).timestamp
            /\ SummaryOf(t).timestamp < resp'.params.end]_vars

\* C4 (amended): list_spans(service = S, start = T0, end = T1) returns only
\* traces whose summary timestamp lies in the closed interval [T0, T1] and
\* whose summary service is S.
ListSpansClosedInterval ==
    [][ListSpansReturns =>
        \A t \in DOMAIN resp'.result :
            /\ \E r \in db.trace : r.trace_id = to_bytes(t)
            /\ SummaryOf(t).service = resp'.params.service
            /\ resp'.params.start <= SummaryOf(t).timestamp
            /\ SummaryOf(t).timestamp <= resp'.params.end]_vars

\* list_spans returned a trace whose summary timestamp is the end of the range
ListSpansClosedIntervalWitness ==
    /\ resp.op = "list_spans"
    /\ \E t \in DOMAIN resp.result :
        /\ SummaryOf(t).timestamp = resp.params.end
        /\ SummaryOf(t).service = resp.params.service
    /\ \E r \in db.trace : r.service # resp.params.service

\* the summary rows that match the service, time and duration predicates
MatchingRows(params) ==
    ListTracesWhere(db.trace, params.service, params.start, params.end,
        IF params.duration_min.some
            THEN Some(WholeMicroseconds(params.duration_min.v)) ELSE None,
        IF params.duration_max.some
            THEN Some(WholeMicroseconds(params.duration_max.v)) ELSE None)

\* C5: list_spans returns spans of at most limit distinct trace ids, and when
\* more than limit traces match the predicates the traces returned are exactly
\* limit matching traces of the greatest summary timestamps.
ListSpansLimitNewest ==
    [][ListSpansReturns =>
        LET rows == MatchingRows(resp'.params)
            got == {to_bytes(t) : t \in DOMAIN resp'.result}
            limit == resp'.params.limit
        IN  /\ Cardinality(got) <= limit
            /\ Cardinality(rows) > limit =>
                \E pick \in SUBSET rows :
                    /\ Cardinality(pick) = limit
                    /\ \A a \in pick, b \in rows \ pick :
                        a.timestamp >= b.timestamp
                    /\ got = {r.trace_id : r \in pick}]_vars

\* the spans of the traces the first query selected
Candidates(keys) == {decode_span(p) : p \in ListSpansSql(db, keys)}

SpansOf(result) == UNION {result[t] : t \in DOMAIN result}

\* for every entry of the filter a tag or process tag of that key renders to
\* the entry's value
MatchesEveryEntry(span, filter) ==
    \A k \in DOMAIN filter :
        \E tag \in Range(span.tags) \cup Range(span.process.tags) :
            tag.key = k /\ Render(tag.value) = filter[k]

\* C6: a span of a selected trace is kept iff for every filter entry (k, v) one
\* of its span tags or process tags has key k and renders to v; with an empty
\* filter every span is kept.
TagFilterMatchesEveryEntry ==
    [][ListSpansReturns =>
        \A x \in Candidates(resp'.selected) :
            (x \in SpansOf(resp'.result))
                <=> MatchesEveryEntry(x, resp'.params.tags)]_vars

\* C7: with the same stored data and the same other parameters, a query with
\* one more tag filter entry returns a subset of the spans.
TagFilterMonotonic ==
    [][ListSpansReturns =>
        \A f \in Filters :
            (/\ Cardinality(DOMAIN f) = Cardinality(DOMAIN resp'.params.tags) + 1
             /\ \A k \in DOMAIN resp'.params.tags :
                    k \in DOMAIN f /\ f[k] = resp'.params.tags[k])
            => SpansOf(list_spans_fold(db, resp'.selected, f))
                \subseteq SpansOf(resp'.result)]_vars

(***************************************************************************)
(* Properties of GET /api/traces.                                          *)
(***************************************************************************)
\* C9: a request that carries traceID parameters together with predicate
\* parameters is rejected with HTTP 400 and runs no storage query.
TracesRejectsIdsWithPredicates ==
    (/\ resp.op = "GET /api/traces"
     /\ "traceID" \in Keys(resp.query)
     /\ Keys(resp.query) \ {"traceID"} # {})
    => (resp.status = StatusBadRequest /\ resp.storage = "none")

\* the query string traceID=<5>&traceID=<6>
Query5And6 ==
    << <<"traceID", HexChars(5, TraceIdHexWidth)>>,
       <<"traceID", HexChars(6, TraceIdHexWidth)>> >>

\* C10: GET /api/traces?traceID=<5>&traceID=<6> against a backend
\* that holds only trace 5 returns HTTP 404 with errors[0].traceID equal to
\* the 32-hex rendering of id 5.
TraceIdsQueryPartlyFoundIs404 ==
    (/\ resp.op = "GET /api/traces"
     /\ resp.query = Query5And6
     /\ find_trace(db, 5) # {}
     /\ find_trace(db, 6) = {})
    => /\ resp.status = StatusNotFound
       /\ Len(resp.errors) > 0
       /\ "traceID" \in DOMAIN resp.errors[1]
       /\ resp.errors[1].traceID = "00000000000000000000000000000005"

\* the request names one non-empty service, and its start and end, where they
\* are absent now - 48h and now, are in this order
ValidPredicateQuery(q) ==
    LET start == OptionalField(q, "start")
        end == OptionalField(q, "end")
    IN  /\ \E i \in DOMAIN q : q[i][1] = "service" /\ q[i][2] # << >>
        /\ start.ok /\ end.ok
        /\ (IF start.v.some THEN start.v.v ELSE Now - LookbackHours)
            < (IF end.v.some THEN end.v.v ELSE Now)

\* C11: a predicate query reaches the storage engine only if its service is
\* present and non-empty and, after the defaults, start < end; every other
\* predicate query is answered with HTTP 400 and runs no storage query.
PredicateQueryValidated ==
    (/\ resp.op = "GET /api/traces"
     /\ "traceID" \notin Keys(resp.query))
    => /\ resp.storage # "none" => ValidPredicateQuery(resp.query)
       /\ ~ValidPredicateQuery(resp.query)
            => (resp.status = StatusBadRequest /\ resp.storage = "none")

(***************************************************************************)
(* Properties of the input adapters.                                       *)
(***************************************************************************)
\* an ingest handler accepted its request
Accepted == resp.op \in {"thrift", "proto", "otlp"} /\ resp.outcome = "accepted"

ConvertedServiceNonEmpty ==
    Accepted => \A i \in DOMAIN resp.saved : resp.saved[i].process.service # ""

\* a wire integer read as unsigned
Unsigned(x) == x % ByteRadix

\* the canonical tag a Thrift tag stands for
ExpectedTag(tag) ==
    Tag(tag.key,
        CASE tag.v_type = "STRING" -> "String" [] tag.v_type = "LONG" -> "I64"
          [] tag.v_type = "DOUBLE" -> "F64" [] tag.v_type = "BOOL" -> "Bool"
          [] tag.v_type = "BINARY" -> "Binary",
        IF tag.v.some THEN tag.v.v
        ELSE CASE tag.v_type = "STRING" -> "" [] tag.v_type = "LONG" -> 0
               [] tag.v_type = "DOUBLE" -> 0 [] tag.v_type = "BOOL" -> FALSE
               [] tag.v_type = "BINARY" -> << >>)

\* the span read back from the payload stored for the i-th span of the batch
Retrieved(i) == decode_span(encode_span(resp.saved[i]))

\* the fields of the i-th span other than its identifiers are the wire's
ThriftFieldsPreserved(i) ==
    LET wire == resp.request.spans[i]
    IN  /\ Retrieved(i).operation_name = wire.operation_name
        /\ Retrieved(i).flags = Unsigned(wire.flags)
        /\ Retrieved(i).start = wire.start_time * NanosPerMicro
        /\ Retrieved(i).duration = wire.duration * NanosPerMicro
        /\ Retrieved(i).tags = [k \in DOMAIN wire.tags |-> ExpectedTag(wire.tags[k])]

QuiverRead ==
    /\ resp.op = "quiver"
    /\ ~resp.request.stream.stalled
    /\ resp.request.stream.len <= ReadLimit
    /\ resp.request.stream.frame.valid

\* C15: every span the client serializes, whatever the variants of its tag
\* values, is deserialized by the listener into a span whose tags have the
\* same keys, variants and values.
QuiverTagsAgree ==
    QuiverRead =>
        /\ resp.outcome = "accepted"
        /\ resp.decoded[1].tags = resp.request.span.tags

\* the spans without tags are deserialized into what the client sent
QuiverUntaggedAgree ==
    (QuiverRead /\ resp.request.span.tags = << >>) =>
        /\ resp.outcome = "accepted"
        /\ resp.decoded[1] = resp.request.span

\* C16: a stream whose payload is larger than 64 KiB once decompressed never
\* results in a call to save_spans.
QuiverRejectsLargePayload ==
    (resp.op = "quiver" /\ resp.request.stream.frame.uncompressed_len > ReadLimit) =>
        /\ resp.outcome = "rejected"
        /\ resp.saved = << >>

(***************************************************************************)
(* Properties of the Quiver client.                                        *)
(***************************************************************************)
\* the shutdown has returned to its caller
ShutdownReturned == client.returned_at # NoTime

\* the instant the timeout of the shutdown is due
Deadline == client.start + client.max_wait

\* every send task that was spawned has ended before the timeout was due
DrainedInTime ==
    \A k \in SendIds :
        client.task[k] # "none" =>
            client.task[k] = "done" /\ client.done_at[k] < Deadline

\* C17: if all outstanding send tasks finish before max_wait elapses, the
\* shutdown returns before max_wait has elapsed; its wait lasts the full
\* max_wait only when some send task is still running at that time.
ShutdownDrainReturnsEarly ==
    (ShutdownReturned /\ DrainedInTime) => client.returned_at < Deadline

\* C19: after a send task has failed the connected flag is clear until a
\* reconnect succeeds, so the SendSpan the actor handles next attempts a
\* reconnect before the stream of its send task is opened; when the reconnect
\* fails the caller gets the connect error, no send task is spawned, and the
\* actor keeps running (only a Shutdown ends it).
ReconnectAfterFailedSend ==
    /\ client.failed_since_connect => ~client.connected
    /\ \A k \in SendIds :
        /\ client.task[k] # "none" => (client.loaded[k] \/ client.reconnected[k])
        /\ (client.failure_seen[k] /\ client.task[k] # "none") =>
                (client.reconnected[k] /\ client.task_conn[k] > 1)
        /\ client.result[k] = "connect error" =>
                (client.task[k] = "none" /\ ~client.reconnected[k])
    /\ client.actor = "closed" => client.returned_at # NoTime

\* the send task of span 1 failed, then the reconnect for span 2 failed and
\* the actor waits for the next message
ReconnectAfterFailedSendWitness ==
    /\ client.result[1] = "send error"
    /\ client.failure_seen[2]
    /\ client.result[2] = "connect error"
    /\ client.task[2] = "none"
    /\ client.actor = "recv"

(***************************************************************************)
(* Properties of the shutdown of the Quiver listener.                      *)
(***************************************************************************)
\* C18: when run has returned after the signal, the request of every stream
\* the listener accepted before the signal has ended and the save_spans call
\* of its span has finished.
ListenerDrainsBeforeReturn ==
    listener.run = "returned" =>
        \A s \in StreamIds :
            listener.before_signal[s] =>
                /\ listener.request[s] = "done"
                /\ listener.save[s] # "spawned"

(***************************************************************************)
(* Properties of the tracing layer.                                        *)
(***************************************************************************)
\* the span that directly encloses span id is one the layer builds
Nested(id) ==
    layer.span[id].parent # 0 /\ ~layer.span[layer.span[id].parent].skipped

\* C20: of the spans the layer emits, a top-level one carries a non-zero
\* trace id and no ChildOf reference, and a nested one carries the trace id
\* of the span that directly encloses it and one ChildOf reference, to that
\* span, so that its trace id is that of its reference.
NestedSpanInheritsTraceId ==
    \A e \in layer.emitted :
        IF Nested(e.id)
        THEN LET up == layer.span[layer.span[e.id].parent]
             IN  /\ e.trace_id = up.trace_id
                 /\ e.references = <<[ty |-> "ChildOf", trace_id |-> up.trace_id,
                                      span_id |-> up.span_id]>>
                 /\ e.references[1].trace_id = e.trace_id
        ELSE e.trace_id # 0 /\ e.references = << >>

\* the Timings of span id
TimingsOf(id) ==
    [busy |-> layer.span[id].busy, idle |-> layer.span[id].idle,
     last |-> layer.span[id].last]

\* the last callback was kind on a span that had Timings
Timed(kind) ==
    /\ layer.event.kind = kind
    /\ ~layer.span[layer.event.id].skipped

\* C21: on_enter adds the time since last to idle and on_exit adds it to
\* busy, each then setting last to now; so busy + idle of a span is the time
\* from its creation to its last enter or exit, and on_close emits exactly
\* the busy and idle of the span as its timing.
SpanTimingAccounts ==
    /\ Timed("enter") =>
            TimingsOf(layer.event.id) =
                [busy |-> layer.event.busy,
                 idle |-> layer.event.idle + (layer.event.now - layer.event.last),
                 last |-> layer.event.now]
    /\ Timed("exit") =>
            TimingsOf(layer.event.id) =
                [busy |-> layer.event.busy + (layer.event.now - layer.event.last),
                 idle |-> layer.event.idle,
                 last |-> layer.event.now]
    /\ \A id \in SpanIds :
            layer.span[id].busy + layer.span[id].idle =
                layer.span[id].last - layer.span[id].created
    /\ \A e \in layer.emitted :
            /\ e.timing = [busy |-> layer.span[e.id].busy,
                           idle |-> layer.span[e.id].idle]
            /\ e.timing.busy + e.timing.idle =
                    layer.span[e.id].last - layer.span[e.id].created

\* a span that was busy and idle for some time is emitted after an exit
SpanTimingAccountsWitness ==
    /\ Timed("close")
    /\ \E e \in layer.emitted :
            /\ e.id = layer.event.id
            /\ e.timing.busy > 0
            /\ e.timing.idle > 0

(***************************************************************************)
(* Properties of the responses of the HTTP ingest endpoints.               *)
(***************************************************************************)
\* C22: POST /api/traces of the Jaeger collector with a body that is no
\* Thrift-binary Batch is answered with 400 and nothing is persisted.
ThriftDecodeFailureIs400 ==
    (resp.op = "thrift" /\ resp.http.kind = "undecodable")
    => (resp.status = StatusBadRequest /\ resp.saved = << >> /\ db = EmptyDb)

\* C23: a request to the Jaeger or the OTLP HTTP endpoint whose body decodes
\* and converts is answered with 202.
IngestSuccessIs202 ==
    (resp.op \in {"thrift", "otlp"} /\ resp.outcome = "accepted")
    => resp.status = StatusAccepted

\* the Content-Type header names the media type application/x-protobuf,
\* with parameters or without
IsProtobufContentType(content_type) ==
    /\ content_type.some
    /\ Len(content_type.v) >= 3
    /\ SubSeq(content_type.v, 1, 3) = <<"application", "/", "x-protobuf">>
    /\ Len(content_type.v) > 3 => content_type.v[4] = ";"

\* C24: an OTLP HTTP request whose Content-Type is not
\* application/x-protobuf is answered with 415 whatever its body is, and
\* nothing is persisted.
OtlpOtherContentTypeIs415 ==
    (resp.op = "otlp" /\ ~IsProtobufContentType(resp.http.content_type))
    => (resp.status = StatusUnsupportedMediaType /\ resp.saved = << >>
        /\ db = EmptyDb)

(***************************************************************************)
(* Properties of the conversion to the JSON of the UI.                     *)
(***************************************************************************)
\* the distinct elements of a sequence, in the order of their first appearance
RECURSIVE FirstSeen(_)
FirstSeen(seq) ==
    IF seq = << >> THEN << >>
    ELSE LET front == FirstSeen(SubSeq(seq, 1, Len(seq) - 1))
         IN  IF seq[Len(seq)] \in Range(front) THEN front
             ELSE Append(front, seq[Len(seq)])

\* the process of the JSON that stands for a canonical one
JsonProcessOf(process) ==
    [serviceName |-> process.service,
     tags |-> [i \in DOMAIN process.tags |-> json_key_value(process.tags[i])]]

\* C25: in the JSON of one trace the processes map has exactly one entry per
\* distinct (service, ordered tags) process, keyed p1, p2, ..., pn without
\* gaps in the order of first appearance among the spans, and the processID
\* of every span is the key of the entry equal to its own process.
TraceProcessesCoalesced ==
    resp.op = "trace_to_json" =>
        LET distinct == FirstSeen([i \in DOMAIN resp.spans |-> resp.spans[i].process])
        IN  /\ resp.trace.processes =
                    {<<"p" \o ToString(k), JsonProcessOf(distinct[k])>> :
                        k \in DOMAIN distinct}
            /\ Len(resp.trace.spans) = Len(resp.spans)
            /\ \A i \in DOMAIN resp.spans :
                    <<resp.trace.spans[i].processID,
                      JsonProcessOf(resp.spans[i].process)>> \in resp.trace.processes

\* a trace in which a process comes back after another one, and one whose
\* tags are those of another in another order
TraceProcessesCoalescedWitness ==
    /\ resp.op = "trace_to_json"
    /\ Len(resp.spans) = 4
    /\ resp.spans[1].process = resp.spans[3].process
    /\ resp.spans[2].process.tags # << >>
    /\ resp.spans[4].process.tags # << >>
    /\ resp.spans[2].process # resp.spans[4].process
    /\ Cardinality(resp.trace.processes) = 3
    /\ resp.trace.spans[3].processID = "p1"
    /\ resp.trace.spans[4].processID = "p3"

(***************************************************************************)
(* Properties of the durations of a query.                                 *)
(***************************************************************************)
\* the duration a group stands for, whole nanoseconds
GroupDuration(group) ==
    IF group.unit.seconds = 0
    THEN DurationNanoseconds((group.number.tenths * group.unit.nanos) \div 10)
    ELSE MkDuration((group.number.tenths * group.unit.seconds) \div 10,
                    ((group.number.tenths * group.unit.seconds) % 10)
                        * (NanosPerSecond \div 10))

RECURSIVE SumOfGroups(_)
SumOfGroups(groups) ==
    IF groups = << >> THEN MkDuration(0, 0)
    ELSE DurationAdd(GroupDuration(Head(groups)), SumOfGroups(Tail(groups)))

\* the duration a value made of groups stands for
DurationOfForm(form) ==
    IF form.negative THEN DurationNeg(SumOfGroups(form.groups))
    ELSE SumOfGroups(form.groups)

\* C26: the parser accepts exactly the values made of an optional "-" and
\* one or more number-then-unit groups with nothing left over and gives the
\* sum of the groups, negated after a "-": "10ms" is 10 ms,
\* "1.2h30m45s120.2ms" is 1 h 42 m 45 s 120.2 ms, "-5s" is minus 5 s, the
\* empty string is None, and "5x" and "5" are errors.
DurationHumanAcceptsGroups ==
    resp.op = "duration_human" =>
        /\ resp.form.some =>
                /\ resp.result.ok
                /\ resp.result.v = Some(DurationOfForm(resp.form.v))
        /\ (~resp.form.some /\ resp.value # << >>) => ~resp.result.ok
        /\ resp.value = << >> => (resp.result.ok /\ resp.result.v = None)
        /\ resp.value = <<"1", "0", "m", "s">> =>
                resp.result.v = Some(MkDuration(0, 10 * NanosPerMilli))
        /\ resp.value = <<"-", "5", "s">> => resp.result.v = Some(MkDuration(0 - 5, 0))
        /\ resp.value = <<"1", ".", "2", "h", "3", "0", "m", "4", "5", "s",
                          "1", "2", "0", ".", "2", "m", "s">> =>
                resp.result.v = Some(MkDuration(SecondsPerHour + 42 * SecondsPerMinute + 45,
                                                120 * NanosPerMilli + 200 * NanosPerMicro))

\* C27: every documented unit is accepted: a value written with the micro
\* sign, such as 10 and the micro sign and s, parses to 10 microseconds, the
\* result of "10us".
DurationHumanMicroSign ==
    (/\ resp.op = "duration_human"
     /\ resp.form.some
     /\ \E i \in DOMAIN resp.form.v.groups :
            resp.form.v.groups[i].unit.chars = <<MicroSign, "s">>)
    => /\ resp.result.ok
       /\ resp.result.v = Some(DurationOfForm(resp.form.v))
       /\ resp.value = <<"1", "0", MicroSign, "s">> =>
            resp.result = DurationHumanVisitor(<<"1", "0", "u", "s">>)

(***************************************************************************)
(* Properties of the tag filter of a query.                                *)
(***************************************************************************)
\* the entries the parameters supply, in the order of the parameters
RECURSIVE Supplied(_)
Supplied(params) ==
    IF params = << >> THEN << >> ELSE Head(params).entries \o Supplied(Tail(params))

\* C28: the repeated tag=<k>:<v> parameters, split at the first ':', and
\* the entries of the tags=<JSON object> parameters are merged into one
\* filter map that holds every supplied key with its value (the last one
\* supplied for the key), and no other parameter enters the map.
TagsMergedIntoOneMap ==
    resp.op = "tags" =>
        LET supplied == Supplied(resp.params)
        IN  /\ resp.result.ok
            /\ DOMAIN resp.result.v.tags = {supplied[i][1] : i \in DOMAIN supplied}
            /\ \A i \in DOMAIN supplied :
                    \/ resp.result.v.tags[supplied[i][1]] = supplied[i][2]
                    \/ \E j \in DOMAIN supplied :
                            j > i /\ supplied[j][1] = supplied[i][1]

\* tag pairs and a JSON object in one query, next to a parameter that is no
\* tag filter
TagsMergedIntoOneMapWitness ==
    /\ resp.op = "tags"
    /\ resp.result.ok
    /\ \E i, j, k \in DOMAIN resp.params :
            /\ i < j
            /\ resp.params[i].key = "tag"
            /\ resp.params[j].key = "tags"
            /\ resp.params[k].key = "other"
    /\ Cardinality(DOMAIN resp.result.v.tags) = 3
    /\ resp.result.v.tags["c"] = "4"

(***************************************************************************)
(* Properties of dropping the layer.                                       *)
(***************************************************************************)
\* C29: dropping the layer never panics, whatever the state of the
\* connection actor, also after Handle::shutdown has ended the actor.
LayerDropNeverPanics == client.drop # "panic"

(***************************************************************************)
(* Properties of the references of a Thrift span.                          *)
(***************************************************************************)
\* a reference of the wire in the proto model
WireRefConverted(high, low, sid, child_of) ==
    [trace_id |-> to_be_bytes(high) \o to_be_bytes(low),
     span_id |-> to_be_bytes(sid),
     ref_type |-> IF child_of THEN "ChildOf" ELSE "FollowsFrom"]

\* parent_span_id is set and no reference of the wire names that span in the
\* trace of the span itself
ParentNotReferenced(span) ==
    /\ span.parent_span_id # 0
    /\ ~\E i \in DOMAIN span.references :
            /\ span.references[i].span_id = span.parent_span_id
            /\ span.references[i].trace_id_high = span.trace_id_high
            /\ span.references[i].trace_id_low = span.trace_id_low

\* C30: the converted references are ChildOf(trace id of the span,
\* parent_span_id) followed by the references of the wire in order when
\* parent_span_id is not zero and no reference of the wire has that span id
\* with the trace id of the span; otherwise they are the references of the
\* wire in order.
ThriftReferencesRewritten ==
    resp.op = "thrift_span" =>
        LET span == resp.span
            wire == [i \in DOMAIN span.references |->
                        WireRefConverted(span.references[i].trace_id_high,
                            span.references[i].trace_id_low,
                            span.references[i].span_id,
                            span.references[i].ref_type = "CHILD_OF")]
        IN  /\ resp.result.kind = "ok"
            /\ resp.result.v.references =
                    IF ParentNotReferenced(span)
                    THEN <<WireRefConverted(span.trace_id_high, span.trace_id_low,
                                span.parent_span_id, TRUE)>> \o wire
                    ELSE wire

\* a parent that only a reference of another trace names: the ChildOf
\* reference is put before the two references of the wire
ThriftReferencesRewrittenWitness ==
    /\ resp.op = "thrift_span"
    /\ resp.result.kind = "ok"
    /\ Len(resp.span.references) = 2
    /\ Len(resp.result.v.references) = 3
    /\ \E i \in DOMAIN resp.span.references :
            /\ resp.span.references[i].span_id = resp.span.parent_span_id
            /\ resp.span.references[i].trace_id_low = resp.span.trace_id_low
            /\ resp.span.references[i].trace_id_high # resp.span.trace_id_high

(***************************************************************************)
(* Properties of the channel of the handle.                                *)
(***************************************************************************)
\* C31: the channel of the client never holds more than 16 messages, and a
\* send_span called while 16 messages are queued waits until the actor has
\* taken one: a producer beyond the sixteenth has called only after the
\* actor took a message.
ChannelHoldsAtMostSixteen ==
    /\ Len(client.receiver) <= ChannelCapacity
    /\ \A k \in DOMAIN client.called :
            (client.called[k] /\ k > ChannelCapacity) =>
                client.msg.id >= k - ChannelCapacity

\* the channel was full, the actor took a message and the seventeenth
\* producer filled the channel again
ChannelHoldsAtMostSixteenWitness ==
    /\ Len(client.receiver) = ChannelCapacity
    /\ client.called[ChannelCapacity + 1]
    /\ client.msg.id = 1

(***************************************************************************)
(* Properties of the detached persistence of the ingest handlers.          *)
(***************************************************************************)
\* C32: the response to an ingest request depends on decoding and
\* conversion only: the step that answers leaves the database alone and,
\* when it accepts, leaves the task at its call of save_spans; no step of a
\* task, a failing one included, changes a response, and a failed task
\* holds no lock that later requests and their tasks would wait for.
ResponseIndependentOfPersistence ==
    [][/\ (resp = NoResp /\ resp' # NoResp) =>
            /\ db' = db
            /\ resp'.outcome = "accepted" => pc'[resp'.caller] = "wait"
       /\ (resp # NoResp /\ resp' # NoResp) => resp' = resp
       /\ \A c \in Callers : pc'[c] = "err" => lock' # c]_vars

\* the task of the first request has failed, and a later request is accepted
\* while nothing has been persisted
ResponseIndependentOfPersistenceWitness ==
    /\ pc[1] = "err"
    /\ resp # NoResp
    /\ resp.caller = 2
    /\ resp.outcome = "accepted"
    /\ pc[2] = "wait"
    /\ db = EmptyDb

(***************************************************************************)
(* Properties of the self-exclusion of the layer.                          *)
(***************************************************************************)
\* the first segment of the target is the crate of the layer, quinn or
\* quinn_proto
Excluded(target) ==
    \E n \in 1..Len(target) :
        /\ n = Len(target) \/ target[n + 1] = "::"
        /\ \A i \in 1..n : target[i] # "::"
        /\ Str(SubSeq(target, 1, n)) \in {"tracing_quiver", "quinn", "quinn_proto"}

\* what the callbacks have recorded for span id
Recorded(id) ==
    [has_builder |-> layer.span[id].has_builder,
     has_timings |-> layer.span[id].has_timings,
     busy |-> layer.span[id].busy, idle |-> layer.span[id].idle,
     tags |-> layer.span[id].tags, logs |-> layer.span[id].logs,
     follows |-> layer.span[id].follows]

NothingRecorded ==
    [has_builder |-> FALSE, has_timings |-> FALSE, busy |-> 0, idle |-> 0,
     tags |-> 0, logs |-> 0, follows |-> {}]

\* C33: for a span whose target starts with the crate of the layer, quinn
\* or quinn_proto no callback records anything and on_close sends nothing,
\* and an event of such a target is logged in no span; so the spans made
\* while a span is sent cause no further span to be sent.
SelfExclusion ==
    /\ [](\A id \in SpanIds :
            (layer.span[id].state # "none" /\ Excluded(layer.span[id].target)) =>
                /\ Recorded(id) = NothingRecorded
                /\ \A e \in layer.emitted : e.id # id)
    /\ [][(layer'.event.kind = "event" /\ Excluded(layer'.event.target)) =>
            \A id \in SpanIds : layer'.span[id].logs = layer.span[id].logs]_vars

\* a span of quinn_proto has closed after a span of the application made
\* inside it was closed and sent: the span of quinn_proto is not sent
SelfExclusionWitness ==
    /\ layer.span[1].state = "closed"
    /\ Str(layer.span[1].target) = "quinn_proto::connection"
    /\ layer.span[2].state = "closed"
    /\ layer.span[2].parent = 1
    /\ layer.event.kind = "close"
    /\ layer.event.id = 1
    /\ {e.id : e \in layer.emitted} = {2}

(***************************************************************************)
(* Properties of the connection the client starts with.                    *)
(***************************************************************************)
\* C34: after Handle::new the actor is connected: until a send task has
\* failed the flag is set, the actor attempts no connect, and the spans go
\* over the connection made during construction.
FirstSendUsesInitialConnection ==
    (\A j \in DOMAIN client.result : client.result[j] # "send error") =>
        /\ client.connected
        /\ client.actor # "connect"
        /\ client.conn = 1
        /\ \A k \in DOMAIN client.result :
                /\ client.result[k] # "connect error"
                /\ client.task[k] # "none" => client.task_conn[k] = 1

(***************************************************************************)
(* Properties of the reader under concurrent callers.                      *)
(***************************************************************************)
\* C35: a read query never has to wait for another read query to finish:
\* a query that has been called can start, whatever the other callers do.
ReadersNeverWait ==
    \A c \in Callers : pc[c] = "read_wait" => ENABLED ReadLocked(c)

(***************************************************************************)
(* Properties of the operation of a predicate query.                       *)
(***************************************************************************)
\* C36: list_spans with operation = O returns only spans of traces that
\* contain a span with the operation name O.
OperationRestrictsResult ==
    (resp.op = "list_spans" /\ resp.params.operation.some) =>
        \A t \in DOMAIN resp.result :
            \E r \in db.span :
                /\ r.trace_id = to_bytes(t)
                /\ decode_span(r.payload).operation_name = resp.params.operation.v

(***************************************************************************)
(* Properties of send_span around the shutdown.                            *)
(***************************************************************************)
\* C37: no send_span call panics, whatever the interleaving with the
\* shutdown, also when the Shutdown is handled while the SendSpan of another
\* caller is queued behind it.
SendSpanNeverPanics ==
    \A k \in DOMAIN client.result : client.result[k] # "panic"

\* C38: a send_span called after the actor has reached Closed returns
\* Ok(()), and its span is neither queued nor sent.
SendSpanAfterCloseIsOk ==
    [][\A k \in DOMAIN client.called :
        (client.actor = "closed" /\ ~client.called[k] /\ client'.called[k]) =>
            /\ client'.result[k] = "ok"
            /\ client'.receiver = client.receiver
            /\ client'.task[k] = "none"]_vars

\* one span was sent and answered Ok before the shutdown, the other was
\* dropped after it and answered Ok as well
SendSpanAfterCloseIsOkWitness ==
    /\ client.actor = "closed"
    /\ \E k, j \in DOMAIN client.result :
            /\ client.result[k] = "ok"
            /\ client.task[k] = "done"
            /\ client.result[j] = "ok"
            /\ client.task[j] = "none"
            /\ client.called[j]

(***************************************************************************)
(* Properties of the connected flag.                                       *)
(***************************************************************************)
\* C39: the flag describes the current connection: after a reconnect has
\* succeeded the flag is clear only when a send task has failed on the
\* connection the actor holds now, so the failure of a task of a
\* connection that was replaced causes no further reconnect.
FlagDescribesCurrentConnection ==
    (client.conn > 1 /\ ~client.connected) =>
        \E k \in DOMAIN client.result :
            /\ client.result[k] = "send error"
            /\ client.task_conn[k] = client.conn

(***************************************************************************)
(* Properties of the integer tags in the JSON of the UI.                   *)
(***************************************************************************)
\* the bytes above the low 64 bits
HighBytes(bytes) == SubSeq(bytes, 1, Len(bytes) - I64Len)

\* the low 64 bits
LowBytes(bytes) == SubSeq(bytes, Len(bytes) - I64Len + 1, Len(bytes))

\* the integer of a tag lies in the range of i64: the bytes above the low
\* 64 bits repeat the sign, which an unsigned integer does not have
InI64Range(value) ==
    LET high == HighBytes(value.v)
        low == LowBytes(value.v)
    IN  \/ /\ \A i \in DOMAIN high : high[i] = 0
           /\ low[1] < SignByte
        \/ /\ value.ty = "I128"
           /\ high # << >>
           /\ \A i \in DOMAIN high : high[i] = ByteRadix - 1
           /\ low[1] >= SignByte

\* the i64 with the bytes int64 in two's complement is the number of the tag
SameNumber(int64, value) ==
    LET extended == [i \in 1..Len(value.v) |->
                        IF i <= Len(value.v) - I64Len
                        THEN IF int64[1] >= SignByte THEN ByteRadix - 1 ELSE 0
                        ELSE int64[i - (Len(value.v) - I64Len)]]
    IN  /\ extended = value.v
        /\ value.ty \in {"U64", "U128"} => int64[1] < SignByte

\* C40: a U64, I128 or U128 tag is rendered as the Int64 of its low 64 bits
\* read in two's complement: a value inside the range of i64 keeps its
\* number, and a U64 of 2^63 or more is rendered negative.
WideIntegersTruncated ==
    resp.op = "key_value" =>
        /\ resp.json.key = resp.tag.key
        /\ resp.json.value.ty = "Int64"
        /\ resp.json.value.v = LowBytes(resp.tag.value.v)
        /\ InI64Range(resp.tag.value) => SameNumber(resp.json.value.v, resp.tag.value)
        /\ (resp.tag.value.ty = "U64" /\ resp.tag.value.v[1] >= SignByte) =>
                resp.json.value.v[1] >= SignByte

\* a thread id of 2^63 or more was rendered: the Int64 is negative
WideIntegersTruncatedWitness ==
    /\ resp.op = "key_value"
    /\ resp.tag.key = "thread.id"
    /\ resp.tag.value.ty = "U64"
    /\ resp.tag.value.v[1] >= SignByte
    /\ resp.json.value.v[1] >= SignByte

====
